---- MODULE Spec2Model ----
(***************************************************************************)
(* Model of the configurable rule-pipeline engine of fyaic/ExcelConvert    *)
(* (rules/workflow_builder.py): configuration loading, rule resolution     *)
(* behind the trust boundary, pipeline assembly (graph-backed and          *)
(* sequential) and the execution of one record through the pipeline.       *)
(*                                                                         *)
(* Python values are modelled as follows.  A str that the code inspects    *)
(* character by character (a module reference) is a sequence of one-       *)
(* character strings; other strs are TLA+ strings.  A dict that is mutated *)
(* in place (a record) lives in a heap, heap[ref], and is passed by        *)
(* reference as in Python.  An insertion-ordered dict of nodes is a        *)
(* sequence of node names plus a function on the names.                    *)
(***************************************************************************)
EXTENDS Integers, Sequences, FiniteSets, TLC

\* ------------------------------------------------------------------ bounds
\* The longest nodes mapping a configuration document declares.
MaxNodes == 2
\* The largest value of field x in an input record.
MaxVal == 1

\* ----------------------------------------------------------------- strings
\* Python's None, and the tag every modelled object carries.
None == [type |-> "NoneType"]

\* Python's `sub in s` for strs given as character sequences.
Contains(s, sub) ==
  \E i \in 1..(Len(s) - Len(sub) + 1) : SubSeq(s, i, i + Len(sub) - 1) = sub

\* str.split("/") as pathlib reads a relative or absolute path: the
\* components between separators (empty components dropped).
RECURSIVE SplitPath(_, _, _)
SplitPath(s, cur, acc) ==
  IF s = <<>> THEN (IF cur = <<>> THEN acc ELSE Append(acc, cur))
  ELSE IF Head(s) = "/"
       THEN SplitPath(Tail(s), <<>>, IF cur = <<>> THEN acc ELSE Append(acc, cur))
       ELSE SplitPath(Tail(s), Append(cur, Head(s)), acc)

IsAbsolute(s) == s # <<>> /\ Head(s) = "/"

\* ------------------------------------------------------------- file system
\* The trusted rule directory, Path(__file__).parent, as path components.
RulesDir == << <<"R">> >>

\* f"{module}.py": the suffix is one pseudo-character.
PyFile(module) == module \o <<".py">>

\* rules_dir / f"{module}.py" (pathlib: an absolute right operand replaces
\* the left one).
CandidatePath(module) ==
  IF IsAbsolute(module) THEN SplitPath(PyFile(module), <<>>, <<>>)
  ELSE RulesDir \o SplitPath(PyFile(module), <<>>, <<>>)

\* Path normalisation of resolve(): ".." removes the component before it.
RECURSIVE Normalize(_, _)
Normalize(p, acc) ==
  IF p = <<>> THEN acc
  ELSE IF Head(p) = <<".", ".">>
       THEN Normalize(Tail(p), IF acc = <<>> THEN acc ELSE SubSeq(acc, 1, Len(acc) - 1))
       ELSE IF Head(p) = <<".">> THEN Normalize(Tail(p), acc)
       ELSE Normalize(Tail(p), Append(acc, Head(p)))

\* The files on disk: path |-> what the file is.  kind "file" is a Python
\* source whose execution either throws or defines attrs (attribute name
\* |-> the transform it is); kind "symlink" points at another path.
NoAttrs == [a \in {} |-> "none"]
OneAttr(t) == [a \in {"f"} |-> t]
PyOk(t) == [kind |-> "file", throws |-> FALSE, attrs |-> OneAttr(t), target |-> <<>>]
\* A rule module shipped in rules/: it defines the function of its name.
Shipped(fn) == [kind |-> "file", throws |-> FALSE, attrs |-> [a \in {fn} |-> fn], target |-> <<>>]
\* The names of the shipped modules are written as one token each: they hold
\* none of the characters the resolver looks for.
Disk ==
  LET R == RulesDir IN
  ( R \o << <<"i", ".py">> >> :> PyOk("inc") ) @@
  ( R \o << <<"c", ".py">> >> :> PyOk("cpy") ) @@
  ( R \o << <<"b", ".py">> >> :> PyOk("failClean") ) @@
  ( R \o << <<"t", ".py">> >> :> PyOk("failDirty") ) @@
  ( R \o << <<"n", ".py">> >> :> [kind |-> "file", throws |-> FALSE, attrs |-> NoAttrs, target |-> <<>>] ) @@
  ( R \o << <<"x", ".py">> >> :> [kind |-> "file", throws |-> TRUE, attrs |-> NoAttrs, target |-> <<>>] ) @@
  ( R \o << <<"d">>, <<"m", ".py">> >> :> PyOk("inc") ) @@
  ( R \o << <<"d", "\\", "m", ".py">> >> :> PyOk("inc") ) @@
  ( R \o << <<"l", ".py">> >> :> [kind |-> "symlink", throws |-> FALSE, attrs |-> NoAttrs, target |-> << <<"s", ".py">> >>] ) @@
  ( R \o << <<"format_fba_id", ".py">> >> :> Shipped("apply_fba_rule") ) @@
  ( R \o << <<"replace_parentheses", ".py">> >> :> Shipped("apply_parentheses_rule") ) @@
  ( R \o << <<"calculate_totals", ".py">> >> :> Shipped("apply_calculate_rules") ) @@
  ( R \o << <<"fill_missing_values", ".py">> >> :> Shipped("apply_fill_missing_values_rule") ) @@
  ( R \o << <<"price_validation", ".py">> >> :> Shipped("apply_price_validation_rule") ) @@
  ( R \o << <<"field_mapping_llm", ".py">> >> :> Shipped("apply_field_mapping_llm_rule") ) @@
  ( << <<"s", ".py">> >> :> PyOk("inc") ) @@
  ( << <<"e", ".py">> >> :> PyOk("inc") )

\* Path.resolve(): normalise, then follow a symbolic link at the path.
Resolve(p) ==
  LET n == Normalize(p, <<>>) IN
  IF n \in DOMAIN Disk /\ Disk[n].kind = "symlink" THEN Disk[n].target ELSE n

\* Path.relative_to(other) succeeds iff other is a prefix of the path.
IsRelativeTo(p, dir) == Len(p) >= Len(dir) /\ SubSeq(p, 1, Len(dir)) = dir

\* Path.exists() and the file the import machinery opens (links followed).
FileAt(module) == Resolve(CandidatePath(module))
FileExists(module) == FileAt(module) \in DOMAIN Disk

\* --------------------------------------------------------------- resolver
\* The log lines of the module's log(): level, the place that logs, and the
\* node and module it names ("" and <<>> when the line names none).
LogLine(level, site, node, module) ==
  [level |-> level, site |-> site, node |-> node, module |-> module]

\* What the resolver does to the file system, in order.
FsEvent(op, module) == [op |-> op, module |-> module]

\* validate_rule_path without the path-separator tests of line 91.
validate_rule_path_NoSeparatorTest(module_path, function_name) ==
  IF Contains(module_path, <<".", ".">>) THEN FALSE
  ELSE IsRelativeTo(Resolve(CandidatePath(module_path)), Resolve(RulesDir))

validate_rule_path(module_path, function_name) ==
  IF Contains(module_path, <<".", ".">>) \/ Contains(module_path, <<"/">>)
       \/ Contains(module_path, <<"\\">>)
  THEN FALSE
  ELSE IsRelativeTo(Resolve(CandidatePath(module_path)), Resolve(RulesDir))

\* The result of a call that may raise: raised is the exception type or
\* "none"; func the transform returned; fs and log what the call did.
Raise(exc, fs, log) == [raised |-> exc, func |-> "none", fs |-> fs, log |-> log]
Return(func, fs, log) == [raised |-> "none", func |-> func, fs |-> fs, log |-> log]

load_rule_function(module_name, function_name) ==
  LET site == "load_rule_function"
      checked == << FsEvent("validated", module_name) >>
      probed == Append(checked, FsEvent("exists", module_name))
      ran == Append(probed, FsEvent("exec", module_name))
      file == Disk[FileAt(module_name)]
  IN
  IF ~validate_rule_path(module_name, function_name)
  THEN Raise("ConfigError", <<>>, <<>>)
  ELSE IF ~FileExists(module_name)
  THEN Raise("FileNotFoundError", probed,
             << LogLine("ERROR", site, "", module_name) >>)
  ELSE IF file.throws
  THEN Return("dummy_func", ran, << LogLine("ERROR", site, "", module_name) >>)
  ELSE IF function_name \notin DOMAIN file.attrs
  THEN Raise("AttributeError", ran, << LogLine("ERROR", site, "", module_name) >>)
  ELSE Return(file.attrs[function_name], ran,
              << LogLine("INFO", site, "", module_name) >>)

\* ----------------------------------------------------------------- helpers
Range(s) == {s[i] : i \in 1..Len(s)}

RECURSIVE Without(_, _)
\* The subsequence of s of the elements not in the set out.
Without(s, out) ==
  IF s = <<>> THEN <<>>
  ELSE IF Head(s) \in out THEN Without(Tail(s), out)
       ELSE <<Head(s)>> \o Without(Tail(s), out)

\* d[k] = v for a dict d given as a function.
Put(d, k, v) == [j \in DOMAIN d \cup {k} |-> IF j = k THEN v ELSE d[j]]

\* ------------------------------------------------------------ Python values
\* The values a record holds.  t is the Python type; s the characters of a
\* str (one-character strings; a Chinese character is written as its pinyin
\* syllable, so that 总箱数 is <<"zong", "xiang", "shu">>, and the full-width
\* parentheses as "((" and "))"); n the number of an int or of a float
\* without fractional part, and the length of a list or dict.  A float that
\* is no number of this kind has s naming it: inf, -inf or nan, or /100 for
\* a float with digits after the point, whose n counts the hundredths.
PyVal(t, s, n) == [t |-> t, s |-> s, n |-> n]
PyNone == PyVal("NoneType", <<>>, 0)
PyStr(s) == PyVal("str", s, 0)
PyInt(n) == PyVal("int", <<>>, n)
PyFloat(n) == PyVal("float", <<>>, n)
PyInf == PyVal("float", <<"inf">>, 0)
PyNegInf == PyVal("float", <<"-inf">>, 0)
PyNan == PyVal("float", <<"nan">>, 0)
PyList(n) == PyVal("list", <<>>, n)
PyDict(n) == PyVal("dict", <<>>, n)

\* The outcome of an expression that may raise: exc is the exception type
\* or "none", v the value.
Value(v) == [exc |-> "none", v |-> v]
Raises(exc) == [exc |-> exc, v |-> PyNone]

IsFinite(v) == v.t \in {"int", "float"} /\ v.s = <<>>

\* An int or a float that is a number, and that number in hundredths.
IsNumber(v) == v.t \in {"int", "float"} /\ v.s \in { <<>>, << "/100" >> }
InHundredths(v) == IF v.s = << "/100" >> THEN v.n ELSE 100 * v.n

\* The float of h hundredths.
Hundredths(h) ==
  IF h % 100 = 0 THEN PyFloat(h \div 100) ELSE PyVal("float", << "/100" >>, h)

\* The quotient of x by y > 0 cut towards zero.
Truncated(x, y) == IF x >= 0 THEN x \div y ELSE -((-x) \div y)

\* bool(v): the truth value of `if v` and `not v`.
Truthy(v) ==
  CASE v.t = "NoneType" -> FALSE
    [] v.t = "str" -> v.s # <<>>
    [] v.t = "int" -> v.n # 0
    [] v.t = "float" -> v.s # <<>> \/ v.n # 0
    [] OTHER -> v.n # 0

\* a or b
Or(a, b) == IF Truthy(a) THEN a ELSE b

Digit == << "0", "1", "2", "3", "4", "5", "6", "7", "8", "9" >>
IsDigit(c) == \E i \in 1..10 : Digit[i] = c
DigitValue(c) == (CHOOSE i \in 1..10 : Digit[i] = c) - 1

RECURSIVE NatStr(_)
NatStr(n) ==
  IF n < 10 THEN << Digit[n + 1] >>
  ELSE Append(NatStr(n \div 10), Digit[(n % 10) + 1])

IntStr(n) == IF n < 0 THEN << "-" >> \o NatStr(-n) ELSE NatStr(n)

RECURSIVE NatOf(_, _)
\* The number a string of digits denotes (acc: the digits read so far).
NatOf(s, acc) ==
  IF s = <<>> THEN acc ELSE NatOf(Tail(s), 10 * acc + DigitValue(Head(s)))

AllDigits(s) == \A i \in 1..Len(s) : IsDigit(s[i])

\* repr of the float of h hundredths, h no multiple of 100.
HundredthsStr(h) ==
  (IF h < 0 THEN << "-" >> ELSE <<>>)
  \o NatStr((IF h < 0 THEN -h ELSE h) \div 100) \o << "." >>
  \o << Digit[(((IF h < 0 THEN -h ELSE h) % 100) \div 10) + 1] >>
  \o (IF h % 10 = 0 THEN <<>> ELSE << Digit[((IF h < 0 THEN -h ELSE h) % 10) + 1] >>)

\* str(v), the characters.
str(v) ==
  CASE v.t = "str" -> v.s
    [] v.t = "NoneType" -> << "N", "o", "n", "e" >>
    [] v.t = "int" -> IntStr(v.n)
    [] v.t = "float" ->
         IF v.s = <<"inf">> THEN << "i", "n", "f" >>
         ELSE IF v.s = <<"-inf">> THEN << "-", "i", "n", "f" >>
         ELSE IF v.s = <<"nan">> THEN << "n", "a", "n" >>
         ELSE IF v.s = <<"/100">> THEN HundredthsStr(v.n)
         ELSE IntStr(v.n) \o << ".", "0" >>
    [] v.t = "list" -> << "[" >> \o (IF v.n = 0 THEN <<>> ELSE NatStr(v.n)) \o << "]" >>
    [] v.t = "dict" -> << "{" >> \o (IF v.n = 0 THEN <<>> ELSE NatStr(v.n)) \o << "}" >>

Whitespace == { " ", "\n", "\t", "\r" }

RECURSIVE lstrip(_)
lstrip(s) == IF s # <<>> /\ Head(s) \in Whitespace THEN lstrip(Tail(s)) ELSE s

RECURSIVE rstrip(_)
rstrip(s) ==
  IF s # <<>> /\ s[Len(s)] \in Whitespace THEN rstrip(SubSeq(s, 1, Len(s) - 1)) ELSE s

\* str.strip()
strip(s) == rstrip(lstrip(s))

\* The float that the text s denotes after strip(): an optional sign, then
\* inf, nan, or digits with an optional point and digits; anything else is
\* no number.  (More than two digits other than 0 after the point,
\* exponents and underscores do not occur in the strings of this model.)
ParseFloat(s) ==
  LET t == strip(s)
      signed == t # <<>> /\ Head(t) \in {"-", "+"}
      neg == t # <<>> /\ Head(t) = "-"
      body == IF signed THEN Tail(t) ELSE t
      dots == { i \in 1..Len(body) : body[i] = "." }
      whole == IF dots = {} THEN body
               ELSE SubSeq(body, 1, (CHOOSE i \in dots : TRUE) - 1)
      frac == IF dots = {} THEN <<>>
              ELSE SubSeq(body, (CHOOSE i \in dots : TRUE) + 1, Len(body))
  IN IF body = << "i", "n", "f" >> THEN Value(IF neg THEN PyNegInf ELSE PyInf)
     ELSE IF body = << "n", "a", "n" >> THEN Value(PyNan)
     ELSE IF /\ Cardinality(dots) <= 1
             /\ whole # <<>> /\ AllDigits(whole)
             /\ AllDigits(frac) /\ \A i \in 3..Len(frac) : frac[i] = "0"
     THEN Value(Hundredths((IF neg THEN -1 ELSE 1)
                           * (100 * NatOf(whole, 0)
                              + NatOf(SubSeq(frac \o << "0", "0" >>, 1, 2), 0))))
     ELSE Raises("ValueError")

\* float(v)
float(v) ==
  CASE v.t = "str" -> ParseFloat(v.s)
    [] v.t = "int" -> Value(PyFloat(v.n))
    [] v.t = "float" -> Value(v)
    [] OTHER -> Raises("TypeError")

\* int(v): of a str, an optional sign and digits; of a float, the integer
\* part, which infinity and nan have not.
int(v) ==
  CASE v.t = "str" ->
         LET t == strip(v.s)
             signed == t # <<>> /\ Head(t) \in {"-", "+"}
             body == IF signed THEN Tail(t) ELSE t
         IN IF body # <<>> /\ AllDigits(body)
            THEN Value(PyInt(IF Head(t) = "-" THEN -NatOf(body, 0) ELSE NatOf(body, 0)))
            ELSE Raises("ValueError")
    [] v.t = "int" -> Value(v)
    [] v.t = "float" ->
         IF v.s = <<>> THEN Value(PyInt(v.n))
         ELSE IF v.s = <<"/100">> THEN Value(PyInt(Truncated(v.n, 100)))
         ELSE IF v.s = <<"nan">> THEN Raises("ValueError")
         ELSE Raises("OverflowError")
    [] OTHER -> Raises("TypeError")

\* v == w of Python for the values of this model: numbers compare by value.
PyEq(v, w) ==
  IF v.t \in {"int", "float"} /\ w.t \in {"int", "float"}
  THEN v.s = w.s /\ v.n = w.n /\ v.s # <<"nan">>
  ELSE v = w

\* x > 0 for a float x.
Positive(x) == IF IsNumber(x) THEN x.n > 0 ELSE x.s = <<"inf">>
Negative(x) == IF IsNumber(x) THEN x.n < 0 ELSE x.s = <<"-inf">>

\* x * y for floats x and y.  (No record of this model has two factors
\* with digits after the point.)
FloatMul(x, y) ==
  IF x.s = <<"nan">> \/ y.s = <<"nan">> THEN PyNan
  ELSE IF IsNumber(x) /\ IsNumber(y)
  THEN Hundredths((InHundredths(x) * InHundredths(y)) \div 100)
  ELSE IF (x.s = <<>> /\ x.n = 0) \/ (y.s = <<>> /\ y.n = 0) THEN PyNan
  ELSE IF Negative(x) = Negative(y) THEN PyInf ELSE PyNegInf

\* int(x / y) for floats x and y, y > 0: the quotient cut towards zero.
IntOfQuotient(x, y) ==
  IF IsNumber(x) /\ IsNumber(y)
  THEN Value(PyInt(Truncated(InHundredths(x), InHundredths(y))))
  ELSE IF x.s = <<"nan">> \/ (~IsNumber(x) /\ ~IsNumber(y)) THEN Raises("ValueError")
  ELSE IF ~IsNumber(x) THEN Raises("OverflowError")
  ELSE Value(PyInt(0))

\* ------------------------------------------------------------ shipped rules
\* The field names the rules know, as characters.
F_FBA == << "F", "B", "A", "xiang", "hao" >>                 \* FBA箱号
F_Boxes == << "zong", "xiang", "shu" >>                      \* 总箱数
F_Pieces == << "dan", "xiang", "ge", "shu" >>                \* 单箱个数
F_PiecesNl == << "dan", "xiang", "\n", "ge", "shu" >>        \* 单箱\n个数
F_Total == << "chan", "pin", "zong", "ge", "shu" >>          \* 产品总个数
F_DeclUnit == << "shen", "bao", "dan", "jia" >>              \* 申报单价
F_DeclTotal == << "shen", "bao", "zong", "jia" >>            \* 申报总价
F_PurchUnit == << "cai", "gou", "dan", "jia" >>              \* 采购单价
F_PurchTotal == << "cai", "gou", "zong", "jia" >>            \* 采购总价
F_Net == << "dan", "xiang", "jing", "zhong" >>               \* 单箱净重
F_NetNl == << "dan", "xiang", "\n", "jing", "zhong" >>       \* 单箱\n净重
F_Gross == << "dan", "xiang", "mao", "zhong" >>              \* 单箱毛重
F_GrossNl == << "dan", "xiang", "\n", "mao", "zhong" >>      \* 单箱\n毛重
F_Brand == << "pin", "pai" >>                                \* 品牌
F_BrandType == << "pin", "pai", "lei", "xing" >>             \* 品牌类型
F_Model == << "xing", "hao" >>                               \* 型号
F_Sku == << "S", "K", "U", "ma" >>                           \* SKU码
F_Link == << "chan", "pin", "zai", "ping", "tai", "lian", "jie" >>  \* 产品在平台链接
F_Name == << "zhong1", "wen", "pin", "ming" >>               \* 中文品名
F_ProdName == << "chan", "pin", "ming", "cheng" >>            \* 产品名称
F_Margin == << "li", "run", "lv" >>                          \* 利润率
F_Warning == << "li", "run", "jing", "gao" >>                \* 利润警告

\* The order in which a record's keys were inserted: the records of this
\* model are written with their keys in this order, and a key a rule adds
\* is one no rule searches for.
Fields ==
  << F_FBA, F_ProdName, F_Name, F_Sku, F_Brand, F_BrandType, F_Model, F_Boxes, F_Net, F_NetNl,
     F_Gross, F_GrossNl, F_Pieces, F_PiecesNl, F_Total, F_DeclUnit, F_DeclTotal,
     F_PurchUnit, F_PurchTotal, F_Link, F_Margin, F_Warning, <<"x">>, <<"y">>, <<"z">> >>

\* data.keys(), in insertion order.
Keys(data) == Without(Fields, Range(Fields) \ DOMAIN data)

\* data.get(key)
Get(data, key) == IF key \in DOMAIN data THEN data[key] ELSE PyNone

\* What a rule function did: exc the exception that left it ("none": it
\* returned data), data the dict's content when it ended.
Ended(exc, data) == [exc |-> exc, data |-> data]

\* s.split(sep)
RECURSIVE Split(_, _, _, _)
Split(s, sep, cur, acc) ==
  IF s = <<>> THEN Append(acc, cur)
  ELSE IF Len(s) >= Len(sep) /\ SubSeq(s, 1, Len(sep)) = sep
       THEN Split(SubSeq(s, Len(sep) + 1, Len(s)), sep, <<>>, Append(acc, cur))
       ELSE Split(Tail(s), sep, Append(cur, Head(s)), acc)

split(s, sep) == Split(s, sep, <<>>, <<>>)

Zeros(k) == [i \in 1..k |-> "0"]

\* s.zfill(width): zeros after a leading sign.
zfill(s, width) ==
  IF Len(s) >= width THEN s
  ELSE IF s # <<>> /\ Head(s) \in {"+", "-"}
       THEN << Head(s) >> \o Zeros(width - Len(s)) \o Tail(s)
       ELSE Zeros(width - Len(s)) \o s

\* s.isdigit()
isdigit(s) == s # <<>> /\ AllDigits(s)

\* The length of the longest run of digits s ends with.
RECURSIVE TrailingDigits(_)
TrailingDigits(s) ==
  IF s # <<>> /\ IsDigit(s[Len(s)])
  THEN 1 + TrailingDigits(SubSeq(s, 1, Len(s) - 1)) ELSE 0

FBA == << "F", "B", "A" >>

\* The first key with 'FBA' and '箱号' in it (lines 33-37), or <<>>.
FbaField(data) ==
  LET ks == Keys(data)
      hits == { i \in 1..Len(ks) :
                  Contains(ks[i], FBA) /\ Contains(ks[i], << "xiang", "hao" >>) }
  IN IF hits = {} THEN <<>> ELSE ks[CHOOSE i \in hits : \A j \in hits : i <= j]

\* The value under the first key with '箱数' and '总' in it (lines 88-91).
TotalBoxesByScan(data) ==
  LET ks == Keys(data)
      hits == { i \in 1..Len(ks) :
                  Contains(ks[i], << "xiang", "shu" >>) /\ Contains(ks[i], << "zong" >>) }
  IN IF hits = {} THEN PyNone
     ELSE data[ks[CHOOSE i \in hits : \A j \in hits : i <= j]]

\* The six digits of rule 4's end suffix, lines 96-103.
EndSuffix(n) ==
  IF n < 10 THEN Zeros(5) \o NatStr(n)
  ELSE IF n < 100 THEN Zeros(4) \o NatStr(n)
  ELSE IF n < 1000 THEN Zeros(3) \o NatStr(n)
  ELSE zfill(NatStr(n), 6)

format_fba_id(data) ==
  LET fba_field_name == FbaField(data)
      value == IF fba_field_name = <<>> THEN PyNone ELSE data[fba_field_name]
      fba_id == value.s
      write(text) == Ended("none", Put(data, fba_field_name, PyStr(text)))
      \* rule 1, lines 43-54
      parts1 == split(fba_id, << "-", "U" >>)
      rule1 == /\ Contains(fba_id, << "-", "U" >>)
               /\ Len(parts1) = 2
               /\ Contains(parts1[1], << "U" >>)
      \* rule 2, lines 57-73
      parts2 == split(fba_id, << "-" >>)
      digits2 == TrailingDigits(parts2[1])
      rule2 == /\ Contains(fba_id, << "-" >>) /\ ~Contains(fba_id, << "-", "U" >>)
               /\ Len(parts2) = 2
               /\ Contains(parts2[1], FBA) /\ isdigit(parts2[2])
               /\ digits2 > 0
      \* rule 3, lines 76-81
      ids == split(fba_id, << "," >>)
      rule3 == Contains(fba_id, << "," >>)
      \* rule 4, lines 84-109
      rule4 == Len(fba_id) = 12 /\ SubSeq(fba_id, 1, 3) = FBA
      total_boxes == IF Get(data, F_Boxes) = PyNone THEN TotalBoxesByScan(data)
                     ELSE Get(data, F_Boxes)
      total_boxes_int == int(total_boxes)
  IN
  IF ~Truthy(value) \/ value.t # "str" THEN Ended("none", data)
  ELSE IF rule1
  THEN write(parts1[1] \o << "-" >> \o split(parts1[1], << "U" >>)[1] \o << "U" >>
               \o zfill(parts1[2], 6))
  ELSE IF rule2
  THEN write(parts2[1] \o << "-" >>
               \o SubSeq(parts2[1], 1, Len(parts2[1]) - digits2)
               \o zfill(parts2[2], digits2))
  ELSE IF rule3
  THEN write(strip(ids[1]) \o << "-" >> \o strip(ids[Len(ids)]))
  ELSE IF rule4
  THEN IF total_boxes_int.exc \in {"ValueError", "TypeError"} THEN Ended("none", data)
       ELSE IF total_boxes_int.exc # "none" THEN Ended(total_boxes_int.exc, data)
       ELSE IF total_boxes_int.v.n > 0
       THEN write(fba_id \o << "U" >> \o Zeros(5) \o << "1", "-" >> \o fba_id
                    \o << "U" >> \o EndSuffix(total_boxes_int.v.n))
       ELSE Ended("none", data)
  ELSE Ended("none", data)

\* apply_fba_rule, lines 113-124.
apply_fba_rule(data) == format_fba_id(data)

\* str.replace('(', '（').replace(')', '）')
ReplaceParens(s) ==
  [i \in 1..Len(s) |-> IF s[i] = "(" THEN "((" ELSE IF s[i] = ")" THEN "))" ELSE s[i]]

replace_parentheses(data) ==
  Ended("none",
        [k \in DOMAIN data |->
           IF data[k].t = "str" THEN PyStr(ReplaceParens(data[k].s)) ELSE data[k]])

\* apply_parentheses_rule, lines 38-40.
apply_parentheses_rule(data) == replace_parentheses(data)

Null == PyStr(<< "n", "u", "l", "l" >>)
Wu == PyStr(<< "wu" >>)                                      \* "无"
WuPinPai == PyStr(<< "wu", "pin", "pai" >>)                  \* "无品牌"
Slash == PyStr(<< "/" >>)

\* float(str(v).strip())
FloatOfStr(v) == float(PyStr(strip(str(v))))

\* float(str(v).strip()) if str(v).strip() != 'null' else None, lines 44-45.
FloatUnlessNull(v) ==
  IF strip(str(v)) = Null.s THEN Value(PyNone) ELSE FloatOfStr(v)

\* Lines 66-75 and 78-87: the total of a unit price, written to totalKey;
\* parsed is float(str(unit_price).strip()).
\* (round(x, 4) gives x for a float without fractional part, inf and nan.)
WritePriceTotal(data, unit_price, parsed, totalKey, product_total_count) ==
  IF unit_price = PyNone \/ unit_price = Null THEN data
  ELSE IF parsed.exc # "none" THEN data
  ELSE Put(data, totalKey, FloatMul(parsed.v, product_total_count))

PriceTotal(data, unitKey, totalKey, product_total_count) ==
  WritePriceTotal(data, Get(data, unitKey), FloatOfStr(Get(data, unitKey)),
                  totalKey, product_total_count)

\* Lines 48-50: calculated_total is int(total_boxes * pieces_per_box).
WriteTotal(data, calculated_total) ==
  IF calculated_total.exc # "none" THEN Ended(calculated_total.exc, data)
  ELSE Ended("none", Put(data, F_Total, calculated_total.v))

\* Lines 42-53, the inner try: "none", or the exception that leaves it.
\* boxes and pieces are the two values of lines 44-45.
CountTotal(data, total_boxes, pieces_per_box, boxes, pieces) ==
  IF total_boxes = PyNone \/ pieces_per_box = PyNone THEN Ended("none", data)
  ELSE IF boxes.exc # "none" \/ pieces.exc # "none" THEN Ended("none", data)
  ELSE IF boxes.v = PyNone \/ pieces.v = PyNone THEN Ended("none", data)
  ELSE IF ~(Positive(boxes.v) /\ Positive(pieces.v)) THEN Ended("none", data)
  ELSE WriteTotal(data, int(FloatMul(boxes.v, pieces.v)))

\* Lines 56-87: count is float(product_total_count).
PriceTotals(data, product_total_count, count) ==
  IF \/ product_total_count = PyNone \/ product_total_count = Null
     \/ strip(str(product_total_count)) = <<>>
  THEN data
  ELSE IF count.exc # "none" THEN data
  ELSE PriceTotal(PriceTotal(data, F_DeclUnit, F_DeclTotal, count.v),
                  F_PurchUnit, F_PurchTotal, count.v)

\* Lines 56-93 after the inner try ended as counted: an exception out of it
\* is caught at line 89.
AfterCount(counted) ==
  IF counted.exc # "none" THEN Ended("none", counted.data)
  ELSE Ended("none", PriceTotals(counted.data, Get(counted.data, F_Total),
                                 float(Get(counted.data, F_Total))))

\* Lines 39-53 for the two fields read at lines 39-40.
CountFrom(data, total_boxes, pieces_per_box) ==
  CountTotal(data, total_boxes, pieces_per_box,
             FloatUnlessNull(total_boxes), FloatUnlessNull(pieces_per_box))

apply_calculate_totals_rule(data) ==
  AfterCount(CountFrom(data, Get(data, F_Boxes),
                       Or(Get(data, F_Pieces), Get(data, F_PiecesNl))))

\* apply_calculate_rules, lines 98-100.
apply_calculate_rules(data) == apply_calculate_totals_rule(data)

\* not data.get(key) or data.get(key) == 'null'
Missing(data, key) == ~Truthy(Get(data, key)) \/ Get(data, key) = Null

\* value is None or value == 'null' or str(value).strip() == ''
Blank(value) == value = PyNone \/ value = Null \/ strip(str(value)) = <<>>

\* Lines 40-45: calculated_pieces is int(total_pieces / total_boxes).
WritePieces(data, calculated_pieces) ==
  IF calculated_pieces.exc # "none" THEN Ended(calculated_pieces.exc, data)
  ELSE IF F_Pieces \in DOMAIN data
  THEN Ended("none", Put(data, F_Pieces, calculated_pieces.v))
  ELSE IF F_PiecesNl \in DOMAIN data
  THEN Ended("none", Put(data, F_PiecesNl, calculated_pieces.v))
  ELSE Ended("none", data)

\* Lines 39-45: boxes is float(total_boxes), pieces float(total_pieces).
PiecesFrom(data, boxes, pieces) ==
  IF boxes.exc # "none" THEN Ended(boxes.exc, data)
  ELSE IF ~Positive(boxes.v) THEN Ended("none", data)
  ELSE IF pieces.exc # "none" THEN Ended(pieces.exc, data)
  ELSE WritePieces(data, IntOfQuotient(pieces.v, boxes.v))

\* Lines 34-45 for the two texts of lines 36-37.
FillPiecesFrom(data, total_pieces, total_boxes) ==
  IF ~(Missing(data, F_Pieces) /\ Missing(data, F_PiecesNl)) THEN Ended("none", data)
  ELSE IF total_pieces = <<>> \/ total_boxes = <<>>
            \/ total_pieces = Null.s \/ total_boxes = Null.s
  THEN Ended("none", data)
  ELSE PiecesFrom(data, float(PyStr(total_boxes)), float(PyStr(total_pieces)))

\* Lines 34-45.  The exceptions that end the whole try block are returned.
FillPieces(data) ==
  FillPiecesFrom(data,
                 strip(IF F_Total \in DOMAIN data THEN str(data[F_Total]) ELSE <<>>),
                 strip(IF F_Boxes \in DOMAIN data THEN str(data[F_Boxes]) ELSE <<>>))

\* round(x - 1, 4) for a float x.
MinusOne(x) == IF IsNumber(x) THEN Hundredths(InHundredths(x) - 100) ELSE x

\* Lines 48-61: gross is float(str(gross_weight).strip()).
WriteNetWeight(data, gross_weight, gross) ==
  IF ~(Missing(data, F_Net) /\ Missing(data, F_NetNl)) THEN data
  ELSE IF ~Truthy(gross_weight) \/ gross_weight = Null THEN data
  ELSE IF gross.exc # "none" THEN data
  ELSE IF F_Net \in DOMAIN data THEN Put(data, F_Net, MinusOne(gross.v))
  ELSE IF F_NetNl \in DOMAIN data THEN Put(data, F_NetNl, MinusOne(gross.v))
  ELSE data

NetWeightFrom(data, gross_weight) ==
  WriteNetWeight(data, gross_weight, FloatOfStr(gross_weight))

\* Lines 48-61.
FillNetWeight(data) ==
  NetWeightFrom(data, Or(Get(data, F_Gross), Get(data, F_GrossNl)))

\* Lines 64-72: the default of a brand field.
BrandDefault(k, v) ==
  IF ~Contains(k, F_Brand) THEN v
  ELSE IF Contains(k, F_BrandType)
  THEN (IF v = PyNone \/ v = Null \/ strip(str(v)) \in {<<>>, Wu.s}
        THEN WuPinPai ELSE v)
  ELSE IF Blank(v) THEN Wu ELSE v

\* Lines 76-97: the default of a model, SKU or link field.
DefaultIn(k, part, default, v) == IF Contains(k, part) /\ Blank(v) THEN default ELSE v

\* Lines 64-97: the defaults of the brand, model, SKU and link fields.
FillDefaults(data) ==
  [k \in DOMAIN data |->
     DefaultIn(k, << "ping", "tai", "lian", "jie" >>, Slash,
       DefaultIn(k, F_Sku, Wu,
         DefaultIn(k, F_Model, Wu, BrandDefault(k, data[k]))))]

\* Lines 32-105 once the first block ended as pieces.
FillAfterPieces(pieces) ==
  IF pieces.exc \in {"ValueError", "TypeError", "ZeroDivisionError"}
  THEN Ended("none", pieces.data)
  ELSE IF pieces.exc # "none" THEN pieces
  ELSE Ended("none", FillDefaults(FillNetWeight(pieces.data)))

fill_missing_values(data) == FillAfterPieces(FillPieces(data))

\* apply_fill_missing_values_rule, lines 108-110.
apply_fill_missing_values_rule(data) == fill_missing_values(data)

\* safe_float_convert, lines 87-102: None for what is no number.
Converted(parsed) == IF parsed.exc # "none" THEN PyNone ELSE parsed.v

safe_float_convert(value) ==
  IF Blank(value) THEN PyNone ELSE Converted(FloatOfStr(value))

\* x / y to the nearest integer, for integers x and y > 0.  (No quotient
\* of this model lies halfway between two integers.)
Nearest(x, y) == (2 * x + y) \div (2 * y)

\* round((declare_price - purchase_price) / purchase_price * 100, 2), lines
\* 45 and 56, for floats with purchase_price > 0.
ProfitMargin(declare_price, purchase_price) ==
  IF declare_price.s = <<"nan">> \/ ~IsNumber(purchase_price) THEN PyNan
  ELSE IF ~IsNumber(declare_price) THEN declare_price
  ELSE Hundredths(Nearest((InHundredths(declare_price) - InHundredths(purchase_price))
                            * 10000,
                          InHundredths(purchase_price)))

\* Lines 59-64: 负利润 below 0, 低利润 below 10, 正常 otherwise (a nan
\* margin is below nothing).
ProfitWarning(declare_price, purchase_price) ==
  IF declare_price.s = <<"nan">> \/ ~IsNumber(purchase_price)
  THEN PyStr(<< "zheng", "chang" >>)
  ELSE IF declare_price.s = <<"-inf">> THEN PyStr(<< "fu", "li", "run" >>)
  ELSE IF declare_price.s = <<"inf">> THEN PyStr(<< "zheng", "chang" >>)
  ELSE IF InHundredths(declare_price) < InHundredths(purchase_price)
  THEN PyStr(<< "fu", "li", "run" >>)
  ELSE IF (InHundredths(declare_price) - InHundredths(purchase_price)) * 100
            < 10 * InHundredths(purchase_price)
  THEN PyStr(<< "di", "li", "run" >>)
  ELSE PyStr(<< "zheng", "chang" >>)

\* Lines 42-64 for the two converted prices.
Validated(data, declare_price, purchase_price) ==
  IF declare_price = PyNone \/ purchase_price = PyNone THEN data
  ELSE IF ~Positive(purchase_price) THEN data
  ELSE Put(Put(data, F_Margin, ProfitMargin(declare_price, purchase_price)),
           F_Warning, ProfitWarning(declare_price, purchase_price))

apply_price_validation_rule(data) ==
  IF ~(Truthy(Get(data, F_DeclUnit)) /\ Truthy(Get(data, F_PurchUnit)))
  THEN Ended("none", data)
  ELSE Ended("none", Validated(data, safe_float_convert(Get(data, F_DeclUnit)),
                               safe_float_convert(Get(data, F_PurchUnit))))

\* The shipped rule function of a name, applied to a dict's content.
ShippedRule(func, data) ==
  CASE func = "apply_fba_rule" -> apply_fba_rule(data)
    [] func = "apply_parentheses_rule" -> apply_parentheses_rule(data)
    [] func = "apply_calculate_rules" -> apply_calculate_rules(data)
    [] func = "apply_fill_missing_values_rule" -> apply_fill_missing_values_rule(data)
    [] func = "apply_price_validation_rule" -> apply_price_validation_rule(data)

\* ------------------------------------------------- the field mapping rule
\* STANDARD_FIELDS, lines 17-25: those of the 31 names this model writes.
STANDARD_FIELDS ==
  { F_FBA, F_Name, F_Sku, F_Brand, F_BrandType, F_Model, F_Boxes, F_Net, F_Gross,
    F_Pieces, F_Total, F_DeclUnit, F_DeclTotal, F_PurchUnit, F_PurchTotal, F_Link }

BeiZhu == << "bei", "zhu" >>                                 \* 备注
Colon == << "::" >>                                          \* ：
QingTiGong == << "qing", "ti", "gong" >>                     \* 请提供
Explaining == { QingTiGong, << "mo", "ren" >>, << "dan", "wei" >>,
                << "shuo", "ming" >> }                       \* 默认, 单位, 说明

\* Lines 267-281 for the key without its line breaks and tabs.
CleanNote(clean_key) ==
  strip(IF Contains(clean_key, BeiZhu) THEN strip(split(clean_key, BeiZhu)[1])
        ELSE IF Contains(clean_key, Colon \o QingTiGong)
        THEN strip(split(clean_key, Colon \o QingTiGong)[1])
        ELSE IF /\ Contains(clean_key, Colon)
                /\ Len(split(clean_key, Colon)[2]) > 0
                /\ \E word \in Explaining : Contains(split(clean_key, Colon)[2], word)
        THEN strip(split(clean_key, Colon)[1])
        ELSE clean_key)

\* clean_key of lines 260-281.
CleanKey(key) == CleanNote(Without(key, { "\n", "\r", "\t" }))

RECURSIVE Distinct(_, _)
\* The elements of s in the order of their first occurrence (acc: so far).
Distinct(s, acc) ==
  IF s = <<>> THEN acc
  ELSE Distinct(Tail(s), IF Head(s) \in Range(acc) THEN acc ELSE Append(acc, Head(s)))

\* The items of a dict filled by d[key(k)] = value for the keys k of the
\* sequence keys in turn: a key written twice keeps its place and takes the
\* later value.  A dict of this rule is [keys, value]: its keys in
\* insertion order and the value under each.
Rekeyed(keys, key(_), value) ==
  [keys |-> Distinct([i \in 1..Len(keys) |-> key(keys[i])], <<>>),
   value |-> [c \in { key(keys[i]) : i \in 1..Len(keys) } |->
                value[keys[CHOOSE i \in 1..Len(keys) :
                             /\ key(keys[i]) = c
                             /\ \A j \in (i + 1)..Len(keys) : key(keys[j]) # c]]]]

\* cleaned_data, lines 257-285.
CleanedData(data) == Rekeyed(Keys(data), CleanKey, data)

\* What the module keeps between calls: _llm_failed (line 28) and the
\* dict apply_field_mapping_llm_rule._cache (lines 288-291).
Module(llm_failed, cache) == [llm_failed |-> llm_failed, cache |-> cache]

\* An empty dict of field names.
NoMapping == [f \in {} |-> <<>>]

\* Lines 69-84: the fields mapped without the service, and the others.
LookedUp(mapping_result, unmapped_fields) ==
  [mapping_result |-> mapping_result, unmapped_fields |-> unmapped_fields]

LookUp(field_names, cache) ==
  LookedUp([f \in { g \in Range(field_names) :
                      g \in STANDARD_FIELDS \/ g \in DOMAIN cache } |->
              IF f \in STANDARD_FIELDS THEN f ELSE cache[f]],
           { g \in Range(field_names) : g \notin STANDARD_FIELDS /\ g \notin DOMAIN cache })

\* What the service answers to a request (requests.post and the reading of
\* the response, lines 181-207): "ok" is status 200 with a JSON mapping,
\* "status" another status, "timeout" requests.exceptions.Timeout,
\* "unreachable" a ConnectionError (whose text names the connection),
\* "invalid" status 200 with content that is no JSON, "error" another
\* exception whose text has none of "429", "timeout", "connection".
Answers == { "ok", "status", "timeout", "unreachable", "invalid", "error" }

\* The answers after which line 228, 232 or 237 sets _llm_failed.
Failures == { "status", "timeout", "unreachable" }

\* The mapping a working service proposes for the fields it is asked about:
\* 产品名称 is 中文品名, and it has no proposal for any other field.
batch_mapping(unmapped_fields) ==
  [f \in unmapped_fields \cap { F_ProdName } |-> F_Name]

\* Lines 211-221: the proposals taken over, into mapping_result and into the
\* cache alike.
Accepted(proposed, field_names) ==
  { f \in DOMAIN proposed :
      proposed[f] \in STANDARD_FIELDS /\ proposed[f] \notin Range(field_names) }

Updated(mapping, proposed, field_names) ==
  [f \in DOMAIN mapping \cup Accepted(proposed, field_names) |->
     IF f \in Accepted(proposed, field_names) THEN proposed[f] ELSE mapping[f]]

\* Lines 188-237: what the answer of the service does to the module and to
\* the mapping_result of the lookup.
Received(answer, looked, field_names, module) ==
  [module |->
     IF answer = "ok"
     THEN [module EXCEPT !.cache =
             Updated(@, batch_mapping(looked.unmapped_fields), field_names)]
     ELSE IF answer \in Failures THEN [module EXCEPT !.llm_failed = TRUE]
     ELSE module,
   mapping_result |->
     IF answer = "ok"
     THEN Updated(looked.mapping_result, batch_mapping(looked.unmapped_fields),
                  field_names)
     ELSE looked.mapping_result,
   contacted |-> TRUE]

\* Lines 86-239 after the lookup: no request without a field to ask about
\* (line 87) or without LLM_BASE_URL and LLM_API_KEY (line 163).
AfterLookUp(looked, field_names, module, configured, answer) ==
  IF looked.unmapped_fields = {} \/ ~configured
  THEN [module |-> module, mapping_result |-> looked.mapping_result,
        contacted |-> FALSE]
  ELSE Received(answer, looked, field_names, module)

\* call_llm_for_batch_mapping(field_names, cache) run without interruption,
\* the service giving answer if it is asked.
call_llm_for_batch_mapping(field_names, module, configured, answer) ==
  IF module.llm_failed
  THEN [module |-> module, mapping_result |-> NoMapping, contacted |-> FALSE]
  ELSE AfterLookUp(LookUp(field_names, module.cache), field_names, module,
                   configured, answer)

\* Lines 311-322: new_data.
MappedKey(mapping_result, original_key) ==
  IF original_key \in DOMAIN mapping_result THEN mapping_result[original_key]
  ELSE original_key

NewData(data, mapping_result) ==
  LET mapped_key(original_key) == MappedKey(mapping_result, original_key)
  IN Rekeyed(data.keys, mapped_key, data.value).value

\* Lines 311-331 for the outcome of call_llm_for_batch_mapping.
Renamed(cleaned_data, mapped) ==
  [module |-> mapped.module, data |-> NewData(cleaned_data, mapped.mapping_result),
   contacted |-> mapped.contacted]

\* Lines 285-331 for cleaned_data.
MapFields(cleaned_data, module, configured, answer) ==
  Renamed(cleaned_data,
          call_llm_for_batch_mapping(cleaned_data.keys, module, configured, answer))

\* apply_field_mapping_llm_rule(data) run without interruption: the module
\* afterwards, the dict returned and whether the service was asked.
apply_field_mapping_llm_rule(data, module, configured, answer) ==
  MapFields(CleanedData(data), module, configured, answer)

\* -------------------------------------------------------------- transforms
\* A record is a dict: a function from its keys to values.  The heap is the
\* sequence of the dicts allocated so far; a reference is an index into it.

\* Calling a rule function on the dict at ref: ok is FALSE when it raises;
\* heap is the heap afterwards, whatever the outcome; ret the dict returned.
Called(ok, heap, ret) == [ok |-> ok, heap |-> heap, ret |-> ret]

ShippedRules == {"apply_fba_rule", "apply_parentheses_rule",
                 "apply_calculate_rules", "apply_fill_missing_values_rule",
                 "apply_price_validation_rule"}

\* A shipped rule ended as r: it wrote to the dict it was handed, and
\* returns it unless it raised.
CalledShipped(r, heap, ref) ==
  Called(r.exc = "none", [heap EXCEPT ![ref] = r.data], ref)

Call(func, heap, ref) ==
  LET data == heap[ref] IN
  CASE func = "dummy_func" -> Called(TRUE, heap, ref)
    \* The shipped rules write to the dict they are handed and return it.
    [] func \in ShippedRules ->
         CalledShipped(ShippedRule(func, data), heap, ref)
    [] func = "inc" ->
         Called(TRUE, [heap EXCEPT ![ref] =
                         Put(data, <<"x">>, PyInt(data[<<"x">>].n + 1))], ref)
    [] func = "cpy" ->
         Called(TRUE, Append(heap, Put(data, <<"y">>, PyInt(2 * data[<<"x">>].n))),
                Len(heap) + 1)
    [] func = "failClean" -> Called(FALSE, heap, ref)
    [] func = "failDirty" ->
         Called(FALSE, [heap EXCEPT ![ref] = Put(data, <<"z">>, PyInt(1))], ref)

\* ----------------------------------------------------------- configuration
\* A node entry of the nodes mapping: the keys it has and their values.
NodeEntry(keys, module, function) ==
  [keys |-> keys, module |-> module, function |-> function]
Full == {"module", "function"}

\* The node entries a configuration document can declare, by node name.
NodeConfigs ==
  ( "inc" :> NodeEntry(Full, <<"i">>, "f") ) @@
  ( "dup" :> NodeEntry(Full, <<"i">>, "f") ) @@
  ( "cpy" :> NodeEntry(Full, <<"c">>, "f") ) @@
  ( "bad" :> NodeEntry(Full, <<"b">>, "f") ) @@
  ( "drt" :> NodeEntry(Full, <<"t">>, "f") ) @@
  ( "mis" :> NodeEntry(Full, <<"m">>, "f") ) @@
  ( "nof" :> NodeEntry(Full, <<"n">>, "f") ) @@
  ( "thr" :> NodeEntry(Full, <<"x">>, "f") ) @@
  ( "trv" :> NodeEntry(Full, <<".", ".", "/", "s">>, "f") ) @@
  ( "abs" :> NodeEntry(Full, <<"/", "e">>, "f") ) @@
  ( "sub" :> NodeEntry(Full, <<"d", "/", "m">>, "f") ) @@
  ( "bsl" :> NodeEntry(Full, <<"d", "\\", "m">>, "f") ) @@
  ( "lnk" :> NodeEntry(Full, <<"l">>, "f") ) @@
  ( "nom" :> NodeEntry({"function"}, <<>>, "f") ) @@
  ( "nfn" :> NodeEntry({"module"}, <<"i">>, "") ) @@
  ( "format_fba_id" :> NodeEntry(Full, <<"format_fba_id">>, "apply_fba_rule") ) @@
  ( "replace_parentheses" :>
      NodeEntry(Full, <<"replace_parentheses">>, "apply_parentheses_rule") ) @@
  ( "calculate_totals" :>
      NodeEntry(Full, <<"calculate_totals">>, "apply_calculate_rules") ) @@
  ( "fill_missing_values" :>
      NodeEntry(Full, <<"fill_missing_values">>, "apply_fill_missing_values_rule") ) @@
  ( "price_validation" :>
      NodeEntry(Full, <<"price_validation">>, "apply_price_validation_rule") ) @@
  ( "field_mapping_llm" :>
      NodeEntry(Full, <<"field_mapping_llm">>, "apply_field_mapping_llm_rule") )

DefaultNodes == << "format_fba_id", "replace_parentheses", "calculate_totals",
                   "fill_missing_values" >>

\* The nodes of the rules shipped in rules/ that use no external service.
RuleNodes == {DefaultNodes[i] : i \in 1..Len(DefaultNodes)} \cup {"price_validation"}

\* The node names a configuration file written by a user declares.
UserNodes == DOMAIN NodeConfigs \ (RuleNodes \cup {"field_mapping_llm"})

Edge(from, to) == [from |-> from, to |-> to]

\* The edge list START -> s[1] -> ... -> s[n] -> END.
Chain(s) ==
  IF s = <<>> THEN << Edge("START", "END") >>
  ELSE << Edge("START", s[1]) >>
       \o [i \in 1..(Len(s) - 1) |-> Edge(s[i], s[i + 1])]
       \o << Edge(s[Len(s)], "END") >>

Reverse(s) == [i \in 1..Len(s) |-> s[Len(s) + 1 - i]]

WorkflowDescription(state_key, nodes, edges, disabled_nodes) ==
  [type |-> "dict", workflow |-> [state_key |-> state_key], nodes |-> nodes,
   edges |-> edges, disabled_nodes |-> disabled_nodes]

\* What open() and yaml.safe_load make of a configuration path: "unreadable"
\* (open or the parser throws), "empty" (an empty document, which safe_load
\* parses to None) or "mapping" with the mapping parsed.
ConfigFile(kind, doc) == [kind |-> kind, doc |-> doc]

load_rules_config(file) ==
  IF file.kind = "unreadable"
  THEN [config |-> WorkflowDescription("product_data", DefaultNodes,
                                       Chain(DefaultNodes), {}),
        log |-> << LogLine("ERROR", "load_rules_config", "", <<>>) >>]
  ELSE IF file.kind = "empty"
  THEN [config |-> None, log |-> << LogLine("INFO", "load_rules_config", "", <<>>) >>]
  ELSE [config |-> file.doc, log |-> << LogLine("INFO", "load_rules_config", "", <<>>) >>]

\* ----------------------------------------------------------------- assembly
\* The graph facility's entry and exit markers (langgraph.graph START, END).
START == "__start__"
END == "__end__"

\* A compiled pipeline, app: kind "graph" (a compiled StateGraph) or
\* "simple" (SimpleWorkflow); nodes the node names in the order added, funcs
\* the rule function bound to each, edges the add_edge calls in order.
App(kind, nodes, funcs, edges, state_key) ==
  [kind |-> kind, nodes |-> nodes, funcs |-> funcs, edges |-> edges,
   state_key |-> state_key]
NoFuncs == [n \in {} |-> "none"]
NoApp == App("none", <<>>, NoFuncs, <<>>, "")

\* What an assembly step leaves behind: the exception that left it
\* ("none": it returned app), and what it did to the disk and the log.
Built(raised, app, fs, log) == [raised |-> raised, app |-> app, fs |-> fs, log |-> log]

\* create_node_function: the two key lookups, then the resolver.  The
\* node_function returned wraps rule_func and is modelled by NodeStep.
create_node_function(node_name, node_config) ==
  IF "module" \notin node_config.keys THEN Raise("KeyError", <<>>, <<>>)
  ELSE IF "function" \notin node_config.keys THEN Raise("KeyError", <<>>, <<>>)
  ELSE load_rule_function(node_config.module, node_config.function)

\* The loop body with an except branch that goes on to the next node
\* without a log line.
AddNode_Silent(acc, node_name, r, site, skipLevel, okLog) ==
  IF r.raised # "none"
  THEN Built("none", acc.app, acc.fs \o r.fs, acc.log \o r.log)
  ELSE Built("none",
             [acc.app EXCEPT !.nodes = Append(@, node_name),
                             !.funcs = Put(@, node_name, r.func)],
             acc.fs \o r.fs,
             acc.log \o r.log \o okLog)

\* The loop over nodes_config.items() of both assemblers: acc is the
\* assembly so far, a Built whose app holds the nodes added.
AddNode(acc, node_name, r, site, skipLevel, okLog) ==
  IF r.raised # "none"
  THEN Built("none", acc.app, acc.fs \o r.fs,
             acc.log \o r.log
               \o << LogLine(skipLevel, site, node_name, <<>>) >>)
  ELSE Built("none",
             [acc.app EXCEPT !.nodes = Append(@, node_name),
                             !.funcs = Put(@, node_name, r.func)],
             acc.fs \o r.fs,
             acc.log \o r.log \o okLog)

RECURSIVE GraphNodes(_, _, _)
\* build_dynamic_workflow, lines 224-243.
GraphNodes(acc, names, disabled_nodes) ==
  IF names = <<>> THEN acc
  ELSE LET node_name == Head(names)
           node_config == NodeConfigs[node_name]
           site == "build_dynamic_workflow"
       IN IF node_name \in disabled_nodes
          THEN GraphNodes([acc EXCEPT !.log =
                             Append(@, LogLine("INFO", site, node_name, <<>>))],
                          Tail(names), disabled_nodes)
          ELSE GraphNodes(
                 AddNode(acc, node_name,
                         create_node_function(node_name, node_config),
                         site, "ERROR",
                         << LogLine("INFO", site, node_name, node_config.module) >>),
                 Tail(names), disabled_nodes)

RECURSIVE SimpleNodes(_, _, _)
\* create_simple_workflow, lines 272-282.
SimpleNodes(acc, names, disabled_nodes) ==
  IF names = <<>> THEN acc
  ELSE LET node_name == Head(names)
           node_config == NodeConfigs[node_name]
           r == IF "module" \notin node_config.keys THEN Raise("KeyError", <<>>, <<>>)
                ELSE IF "function" \notin node_config.keys
                THEN Raise("KeyError", <<>>, <<>>)
                ELSE load_rule_function(node_config.module, node_config.function)
       IN IF node_name \in disabled_nodes
          THEN SimpleNodes(acc, Tail(names), disabled_nodes)
          ELSE SimpleNodes(
                 AddNode(acc, node_name, r, "create_simple_workflow", "WARNING", <<>>),
                 Tail(names), disabled_nodes)

create_simple_workflow(nodes_config, disabled_nodes, state_key) ==
  LET acc == SimpleNodes(Built("none", App("simple", <<>>, NoFuncs, <<>>, state_key),
                               <<>>, <<>>),
                         nodes_config, disabled_nodes)
  IN [acc EXCEPT !.log = Append(@, LogLine("INFO", "create_simple_workflow", "", <<>>))]

\* build_workflow_from_edges: the add_edge calls, in order.
build_workflow_from_edges(nodes, edges) ==
  [i \in 1..Len(edges) |->
     LET from_node == edges[i].from
         to_node == edges[i].to
     IN IF from_node = "START" THEN <<START, to_node>>
        ELSE IF to_node = "END" THEN <<from_node, END>>
        ELSE <<from_node, to_node>>]

\* The default serial flow of lines 256-259.
SerialEdges(node_names) ==
  << <<START, node_names[1]>> >>
  \o [i \in 1..(Len(node_names) - 1) |-> <<node_names[i], node_names[i + 1]>>]
  \o << <<node_names[Len(node_names)], END>> >>

\* StateGraph.compile(): the facility validates the graph and raises
\* ValueError for an edge starting at an unknown node, for a graph without
\* an entry point (no edge from START) and for an edge ending at an unknown
\* node.
CompileOk(nodes, edges) ==
  LET sources == {edges[i][1] : i \in 1..Len(edges)}
      targets == {edges[i][2] : i \in 1..Len(edges)}
  IN /\ sources \subseteq Range(nodes) \cup {START}
     /\ START \in sources
     /\ targets \subseteq Range(nodes) \cup {END}

StateGraph_compile(acc) ==
  IF CompileOk(acc.app.nodes, acc.app.edges) THEN acc
  ELSE Built("ValueError", NoApp, acc.fs, acc.log)

build_dynamic_workflow(config, langgraph_available) ==
  IF config.type = "NoneType"
  THEN \* config.get on None
       Built("AttributeError", NoApp, <<>>, <<>>)
  ELSE
  LET state_key == config.workflow.state_key
      site == "build_dynamic_workflow"
  IN
  IF ~langgraph_available
  THEN create_simple_workflow(config.nodes, config.disabled_nodes, state_key)
  ELSE
  LET acc == GraphNodes(Built("none", App("graph", <<>>, NoFuncs, <<>>, state_key),
                              <<>>, <<>>),
                        config.nodes, config.disabled_nodes)
      node_names == acc.app.nodes
  IN
  IF node_names = <<>>
  THEN StateGraph_compile([acc EXCEPT !.log = Append(@, LogLine("WARNING", site, "", <<>>))])
  ELSE
  LET edges == IF config.edges # <<>>
               THEN build_workflow_from_edges(acc.app.nodes, config.edges)
               ELSE SerialEdges(node_names)
      compiled == StateGraph_compile([acc EXCEPT !.app.edges = edges])
  IN IF compiled.raised # "none" THEN compiled
     ELSE [compiled EXCEPT !.log = Append(@, LogLine("INFO", site, "", <<>>))]

\* ---------------------------------------------------------------- execution
\* One call of a node's transform during a run: the node, the dict it was
\* handed (arg) and that dict's content at the call, whether the transform
\* returned (ok), and the dict the run carries on with (ret).
CallRecord(node, arg, argValue, ok, ret) ==
  [node |-> node, arg |-> arg, argValue |-> argValue, ok |-> ok, ret |-> ret]

\* The state of a run: the heap, the dict the run holds (result / the
\* state's entry under state_key), the calls made and the log written.
Run(heap, ref, calls, log) == [heap |-> heap, ref |-> ref, calls |-> calls, log |-> log]

\* The run after the transform of a node returned or raised as c: the
\* transform's return value when it returned, the dict it was handed when
\* it raised; the heap is the one the transform left.
Returned(run, node_name, site, c) ==
  Run(c.heap,
      IF c.ok THEN c.ret ELSE run.ref,
      Append(run.calls, CallRecord(node_name, run.ref, run.heap[run.ref], c.ok,
                                   IF c.ok THEN c.ret ELSE run.ref)),
      Append(run.log, LogLine(IF c.ok THEN "INFO" ELSE "ERROR", site, node_name, <<>>)))

\* The try/except around a transform with an except branch that calls the
\* transform a second time on the dict it was handed (a retry); first is
\* the run after the first call.
Retried(first, node_name, rule_func, site) ==
  IF first.calls[Len(first.calls)].ok THEN first
  ELSE Returned(first, node_name, site, Call(rule_func, first.heap, first.ref))

RunNode_Retry(run, node_name, rule_func, site) ==
  Retried(Returned(run, node_name, site, Call(rule_func, run.heap, run.ref)),
          node_name, rule_func, site)

\* The try/except around a transform, shared by node_function (lines
\* 159-170) and the loop body of simple_workflow (lines 288-292): the
\* transform's return value when it returns, the dict it was handed when it
\* raises.
RunNode(run, node_name, rule_func, site) ==
  Returned(run, node_name, site, Call(rule_func, run.heap, run.ref))

RECURSIVE simple_workflow_OnInput(_, _, _)
\* simple_workflow with line 289 written result = rule_func(data): every
\* transform is handed the dict the caller submitted.
simple_workflow_OnInput(app, names, run) ==
  IF names = <<>> THEN run
  ELSE LET data == IF run.calls = <<>> THEN run.ref ELSE run.calls[1].arg
           r == RunNode([run EXCEPT !.ref = data], Head(names),
                        app.funcs[Head(names)], "simple_workflow")
       IN simple_workflow_OnInput(app, Tail(names), r)

RECURSIVE simple_workflow(_, _, _)
\* simple_workflow: active_nodes.items() in insertion order.
simple_workflow(app, names, run) ==
  IF names = <<>> THEN run
  ELSE simple_workflow(app, Tail(names),
                       RunNode(run, Head(names), app.funcs[Head(names)], "simple_workflow"))

RECURSIVE GraphWalk(_, _, _)
\* The compiled graph's invoke: from the node START points at, each node's
\* node_function in turn along the edges until END.  (The graphs built here
\* are paths: every source has one edge.)
GraphWalk(app, cur, run) ==
  IF cur = END THEN run
  ELSE LET next == CHOOSE t \in Range(app.nodes) \cup {END} :
                     \E i \in 1..Len(app.edges) : app.edges[i] = <<cur, t>>
       IN GraphWalk(app, next, RunNode(run, cur, app.funcs[cur], "node_function"))

\* A pipeline that keeps the state of its last run: the dict at ref starts
\* with the fields the dict allocated before it ended with.
FromRun(app, run) ==
  IF app.kind = "simple" THEN simple_workflow(app, app.nodes, run)
  ELSE GraphWalk(app, CHOOSE t \in Range(app.nodes) \cup {END} :
                        \E i \in 1..Len(app.edges) : app.edges[i] = <<START, t>>, run)
invoke_Stale(app, heap, ref) ==
  FromRun(app, Run([heap EXCEPT ![ref] = IF ref > 1 THEN heap[ref] @@ heap[ref - 1] ELSE @],
                   ref, <<>>, <<>>))

\* app.invoke({state_key: data}) for the dict at ref.
invoke(app, heap, ref) ==
  IF app.kind = "simple"
  THEN simple_workflow(app, app.nodes, Run(heap, ref, <<>>, <<>>))
  ELSE LET first == CHOOSE t \in Range(app.nodes) \cup {END} :
                      \E i \in 1..Len(app.edges) : app.edges[i] = <<START, t>>
       IN GraphWalk(app, first, Run(heap, ref, <<>>, <<>>))

\* The outer state of a run: the dict held under each of its fields.
StateOf(key, ref) == [k \in {key} |-> ref]

\* app.invoke(state) as its caller sees it: the exception that left it
\* ("none": it returned final_state), and the run.
Invoked(raised, final_state, run) ==
  [raised |-> raised, state |-> final_state, run |-> run]

\* What invoke returns after the run: SimpleWorkflow.invoke a state with
\* the one field state_key (line 299), the compiled graph the state
\* submitted with the field updated (node_function, line 166).
FinalState(app, state, run) ==
  Invoked("none",
          IF app.kind = "simple" THEN StateOf(app.state_key, run.ref)
          ELSE [state EXCEPT ![app.state_key] = run.ref],
          run)

\* app.invoke(state) for any state: state[state_key] is read at line 298
\* by SimpleWorkflow.invoke and at line 157 by the first node_function,
\* outside every try.
invoke_state(app, heap, state) ==
  IF app.state_key \notin DOMAIN state
  THEN Invoked("KeyError", state, Run(heap, 0, <<>>, <<>>))
  ELSE FinalState(app, state, invoke(app, heap, state[app.state_key]))

\* ------------------------------------------------------------ state machine
VARIABLES
  pc,                   \* "start", "loaded", "built", "raised", "ran"
  LANGGRAPH_AVAILABLE,  \* set at import, lines 13-17
  file,                 \* what the configuration path held: ConfigFile's kind
  config,               \* what load_rules_config returned
  app,                  \* the compiled pipeline build_dynamic_workflow returned
  raised,               \* the exception that left build_dynamic_workflow
  fsLog,                \* the resolver's accesses to the disk, in order
  logs,                 \* the log lines written, in order
  heap,                 \* the dicts allocated
  input,                \* the dict the caller handed to invoke, and its content
  output,               \* the dict invoke returned under state_key
  calls,                \* the transform calls of the run, in order
  runs,                 \* what the caller applied to its records, in order
  batch,                \* process_json_with_langgraph: the items read so far and
                        \* processed_list
  llm_failed,           \* field_mapping_llm._llm_failed
  cache,                \* apply_field_mapping_llm_rule._cache
  workers,              \* where each worker is in apply_field_mapping_llm_rule
  service,              \* whether the service is configured, and the requests sent
  json_file,            \* _transform_json_file: the file read and the file written
  engine                \* process_single_file: the files, the stages and the result

vars == << pc, LANGGRAPH_AVAILABLE, file, config, app, raised, fsLog, logs, heap,
           input, output, calls, runs, batch, llm_failed, cache, workers, service,
           json_file, engine >>

\* The state of the field mapping rule and of the service it asks.
llmVars == << llm_failed, cache, workers, service >>

\* The workers that run records through one compiled pipeline.
Workers == {1, 2}

\* The 'metadata' entry of a file: absent, null, a mapping (its fields) or
\* a text.
NoFields == [f \in {} |-> 0]
Metadata(kind, fields) == [kind |-> kind, fields |-> fields]

\* What json.dump wrote to the output file: nothing, a mapping with
\* 'metadata' and 'data', or a list.
Written(kind, metadata, data) == [kind |-> kind, metadata |-> metadata, data |-> data]

\* No file is being transformed, and no conversion is under way.
NoFile == [metadata |-> Metadata("absent", NoFields),
           written |-> Written("nothing", NoFields, <<>>)]
NoEngine == [skip_preprocessing |-> FALSE, files |-> <<>>, at |-> 0, stages |-> <<>>,
             all_success |-> TRUE, result |-> "none"]

\* A worker inside apply_field_mapping_llm_rule: pc is "idle" (not in a
\* call), "lookup" (before line 73), "post" (before line 181), "answered"
\* (before line 188) or "done"; item the dict it was handed, data its
\* cleaned_data, looked the outcome of lines 69-84, answer what the service
\* answered and failed the value of _llm_failed that line 65 read.
Worker(at, item, data, looked, answer, failed) ==
  [pc |-> at, item |-> item, data |-> data, looked |-> looked, answer |-> answer,
   failed |-> failed]
NoDict == [keys |-> <<>>, value |-> NoMapping]
Idle == Worker("idle", NoMapping, NoDict, LookedUp(NoMapping, {}), "none", FALSE)

\* An item of the list process_json_with_langgraph reads: a dict with its
\* content, or something else.
Item(isDict, value) == [isDict |-> isDict, value |-> value]
NoBatch == [items |-> <<>>, results |-> <<>>]

\* The sequences of at most n distinct names of the set names.
Orders(names, n) ==
  { s \in UNION { [1..k -> names] : k \in 0..n } :
      \A i, j \in 1..Len(s) : s[i] = s[j] => i = j }

\* The nodes whose rule module loads, and one whose module is missing.
ExecNodes == {"inc", "cpy", "bad", "drt", "mis"}

\* The nodes mappings a document can declare: up to MaxNodes distinct
\* names, and one name more when all are of ExecNodes.
NodeOrders == Orders(UserNodes, MaxNodes) \cup Orders(ExecNodes, MaxNodes + 1)

\* The edge lists a document declares for its nodes: none, the chain over
\* all declared nodes, the chain over the enabled ones, and that chain in
\* the reverse of the declaration order.
EdgeLists(nodes, disabled_nodes) ==
  { <<>>, Chain(nodes), Chain(Without(nodes, disabled_nodes)),
    Chain(Reverse(Without(nodes, disabled_nodes))) }

\* The records a caller submits: {"x": v}.
InputRecords == { [k \in {<<"x">>} |-> PyInt(v)] : v \in 0..MaxVal }

Init ==
  /\ pc = "start"
  /\ LANGGRAPH_AVAILABLE \in BOOLEAN
  /\ file = "none"
  /\ config = None
  /\ app = NoApp
  /\ raised = "none"
  /\ fsLog = <<>>
  /\ logs = <<>>
  /\ heap = <<>>
  /\ input = [ref |-> 0, value |-> <<>>]
  /\ output = 0
  /\ calls = <<>>
  /\ runs = <<>>
  /\ batch = NoBatch
  /\ llm_failed = FALSE
  /\ cache = NoMapping
  /\ workers = [w \in Workers |-> Idle]
  /\ service = [configured |-> TRUE, requests |-> <<>>]
  /\ json_file = NoFile
  /\ engine = NoEngine

\* load_rules_config(config_path), the first statement of
\* build_dynamic_workflow.
LoadRulesConfig ==
  /\ pc = "start"
  /\ \E kind \in {"unreadable", "empty", "mapping"} :
     \E nodes \in IF kind = "mapping" THEN NodeOrders ELSE {<<>>} :
     \E disabled \in SUBSET Range(nodes) :
     \E edges \in EdgeLists(nodes, disabled) :
     \E r \in { load_rules_config(ConfigFile(kind,
                    WorkflowDescription("product_data", nodes, edges, disabled))) } :
       /\ file' = kind
       /\ config' = r.config
       /\ logs' = logs \o r.log
  /\ pc' = "loaded"
  /\ UNCHANGED << LANGGRAPH_AVAILABLE, json_file, engine, app, raised, fsLog, heap, input, output, calls, runs,
                  batch, llmVars >>

\* The rest of build_dynamic_workflow: it returns app or raises.
BuildDynamicWorkflow ==
  /\ pc = "loaded"
  /\ \E b \in { build_dynamic_workflow(config, LANGGRAPH_AVAILABLE) } :
     /\ app' = b.app
     /\ raised' = b.raised
     /\ fsLog' = fsLog \o b.fs
     /\ logs' = logs \o b.log
     /\ pc' = IF b.raised = "none" THEN "built" ELSE "raised"
  /\ UNCHANGED << LANGGRAPH_AVAILABLE, json_file, engine, file, config, heap, input, output, calls, runs,
                  batch, llmVars >>

\* app.invoke({state_key: record}) on a record the caller allocated.
Invoke ==
  /\ pc = "built"
  /\ \E record \in InputRecords :
     \E r \in { invoke(app, Append(heap, record), Len(heap) + 1) } :
       /\ heap' = r.heap
       /\ input' = [ref |-> Len(heap) + 1, value |-> record]
       /\ output' = r.ref
       /\ calls' = r.calls
       /\ logs' = logs \o r.log
  /\ pc' = "ran"
  /\ UNCHANGED << LANGGRAPH_AVAILABLE, json_file, engine, file, config, app, raised, fsLog, runs, batch, llmVars >>

Next == LoadRulesConfig \/ BuildDynamicWorkflow \/ Invoke

Spec == Init /\ [][Next]_vars

\* ------------------------------------------------ the shipped rules at work
\* The largest number a field of a record of the shipped rules holds.
MaxNum == 2

\* A record given by what each field holds; a field holding Absent is not
\* a key of the record.
Absent == PyVal("absent", <<>>, 0)
Record(fields) == [k \in { f \in DOMAIN fields : fields[f] # Absent } |-> fields[k]]

\* The products of the value sets of two, three and four fields.
Records2(k1, V1, k2, V2) ==
  { Record((k1 :> v1) @@ (k2 :> v2)) : v1 \in V1, v2 \in V2 }
Records3(k1, V1, k2, V2, k3, V3) ==
  { Record((k1 :> v1) @@ (k2 :> v2) @@ (k3 :> v3)) : v1 \in V1, v2 \in V2, v3 \in V3 }
Records4(k1, V1, k2, V2, k3, V3, k4, V4) ==
  { Record((k1 :> v1) @@ (k2 :> v2) @@ (k3 :> v3) @@ (k4 :> v4)) :
      v1 \in V1, v2 \in V2, v3 \in V3, v4 \in V4 }

\* The values of a numeric field: the integers from -1 to MaxNum, and one
\* value of every other kind a JSON document can hold there.
Ints == { PyInt(n) : n \in (-1)..MaxNum }
Oddities == { PyNone, Null, PyStr(<<>>), PyStr(IntStr(MaxNum)), PyStr(<< "a", "b", "c" >>),
              PyInf, PyList(1) }
NumVals == Ints \cup Oddities

\* A number of boxes that is no integer: MaxNum and a half.
Fraction == Hundredths(100 * MaxNum + 50)

\* FBA ids of the forms the rule's docstring lists, and of none.
Id12 == << "F", "B", "A", "1", "5", "L", "4", "K", "X", "S", "K", "8" >>
Box(n) == Id12 \o << "U" >> \o zfill(NatStr(n), 6)
FbaVals ==
  { Absent, PyNone, PyStr(<<>>), PyInt(5), PyStr(Id12),
    PyStr(Box(1) \o << "-", "U" >> \o zfill(NatStr(MaxNum), 6)),
    PyStr(Box(1) \o << "-" >> \o NatStr(MaxNum)),
    PyStr(Box(1) \o << "," >> \o Box(MaxNum)),
    PyStr(Box(1) \o << "," >> \o NatStr(MaxNum)),
    PyStr(<< "(", "a", ")" >>) }

TextVals == { Absent, PyNone, PyStr(<<>>), Wu, PyStr(<< "(", "a", ")" >>) }

\* The records the rules are applied to.
RuleRecords ==
  \* the boxes, the pieces and a total that is not their product
  Records3(F_Boxes, NumVals, F_Pieces, NumVals \cup {Absent},
           F_Total, { Absent, PyInt(MaxNum + 1) })
  \* totals and unit prices
  \cup Records3(F_Total, { Absent, PyNone, PyInt(0), PyInt(MaxNum + 1), PyInf,
                           PyStr(<< "a", "b", "c" >>) },
                F_DeclUnit, NumVals \cup {Absent}, F_PurchUnit, { Absent, PyInt(MaxNum) })
  \* the pieces to fill in, under either spelling of the key
  \cup Records4(F_Pieces, { Absent, PyStr(<<>>), PyInt(0) },
                F_PiecesNl, { Absent, PyNone },
                F_Boxes, { PyInt(0), PyInt(MaxNum), PyStr(IntStr(MaxNum)), PyNone,
                           PyStr(<< "a", "b", "c" >>) },
                F_Total, { Absent, PyNone, PyInt(MaxNum + 1), PyInf,
                           PyStr(<< "i", "n", "f" >>) })
  \* weights
  \cup Records3(F_Net, { Absent, PyStr(<<>>), PyInt(0), PyInt(MaxNum) },
                F_Gross, NumVals \cup {Absent}, F_Model, { Absent, PyStr(<<>>) })
  \* the text fields with defaults
  \cup Records4(F_Brand, TextVals, F_BrandType, TextVals, F_Sku, { Absent, Null },
                F_Link, { Absent, PyStr(<<>>) })
  \* a text field with a default beside the boxes and the total
  \cup Records3(F_Sku, { PyStr(<<>>), Null },
                F_Boxes, { PyInt(0), PyInt(MaxNum), PyStr(<< "a", "b", "c" >>) },
                F_Total, { Absent, PyInt(MaxNum + 1), PyStr(<< "a", "b", "c" >>) })
  \* FBA ids and the number of boxes
  \cup Records2(F_FBA, FbaVals,
                F_Boxes, { Absent, PyNone, PyInt(0), PyInt(MaxNum), PyStr(IntStr(MaxNum)),
                           PyStr(<< "a", "b", "c" >>), PyInf, Fraction })

\* One thing the caller did with its record: by names the rule function or
\* "invoke" (the compiled pipeline); before and after are the content of
\* the dict handed in; ok is FALSE when the call raised; ret is the dict
\* returned.
Applied(by, before, ok, ret, after) ==
  [by |-> by, before |-> before, ok |-> ok, ret |-> ret, after |-> after]

\* The compiled pipeline of the built-in default configuration.
DefaultApp(langgraph_available) ==
  build_dynamic_workflow(
    load_rules_config(ConfigFile("unreadable", None)).config, langgraph_available).app

RuleInit ==
  /\ pc = "drawn"
  /\ LANGGRAPH_AVAILABLE \in BOOLEAN
  /\ file = "unreadable"
  /\ config = load_rules_config(ConfigFile("unreadable", None)).config
  /\ app = DefaultApp(LANGGRAPH_AVAILABLE)
  /\ raised = "none"
  /\ fsLog = <<>>
  /\ logs = <<>>
  /\ \E record \in RuleRecords :
       /\ heap = << record >>
       /\ input = [ref |-> 1, value |-> record]
  /\ output = 1
  /\ calls = <<>>
  /\ runs = <<>>
  /\ batch = NoBatch
  /\ llm_failed = FALSE
  /\ cache = NoMapping
  /\ workers = [w \in Workers |-> Idle]
  /\ service = [configured |-> TRUE, requests |-> <<>>]
  /\ json_file = NoFile
  /\ engine = NoEngine

\* The caller hands the dict it holds to one shipped rule function.
ApplyTo(func) ==
  \E c \in { Call(func, heap, output) } :
    /\ heap' = c.heap
    /\ output' = IF c.ok THEN c.ret ELSE output
    /\ calls' = calls
    /\ runs' = Append(runs, Applied(func, heap[output], c.ok, c.ret, c.heap[output]))

\* The caller hands the dict it holds to the compiled default pipeline.
InvokeOn ==
  \E r \in { invoke(app, heap, output) } :
    /\ heap' = r.heap
    /\ output' = r.ref
    /\ calls' = calls \o r.calls
    /\ runs' = Append(runs, Applied("invoke", heap[output], TRUE, r.ref, r.heap[output]))

\* A rule function, or the pipeline, applied to the record drawn.
ApplyRule ==
  /\ pc = "drawn"
  /\ pc' = "applied"
  /\ \E func \in ShippedRules : ApplyTo(func)
  /\ UNCHANGED << LANGGRAPH_AVAILABLE, json_file, engine, file, config, app, raised, fsLog, logs, input,
                  batch, llmVars >>

InvokeDefault ==
  /\ pc = "drawn"
  /\ pc' = "applied"
  /\ InvokeOn
  /\ UNCHANGED << LANGGRAPH_AVAILABLE, json_file, engine, file, config, app, raised, fsLog, logs, input,
                  batch, llmVars >>

\* The same again, on what the first application returned.
Reapply ==
  /\ pc = "applied"
  /\ runs[1].ok
  /\ pc' = "reapplied"
  /\ IF runs[1].by = "invoke" THEN InvokeOn ELSE ApplyTo(runs[1].by)
  /\ UNCHANGED << LANGGRAPH_AVAILABLE, json_file, engine, file, config, app, raised, fsLog, logs, input,
                  batch, llmVars >>

RuleNext == ApplyRule \/ InvokeDefault \/ Reapply

RuleSpec == RuleInit /\ [][RuleNext]_vars

\* ------------------------------------------------- a batch of records
\* The most items of a list handed to process_json_with_langgraph.
MaxItems == 3

\* The pipelines of the rules that use no external service: at most
\* MaxNodes of them, in any order, with no edge declared.
RulePipelines == { nodes \in Orders(RuleNodes, MaxNodes) : nodes # <<>> }

\* The pipeline compiled from a configuration that declares nodes.
CompiledFrom(nodes, langgraph_available) ==
  build_dynamic_workflow(WorkflowDescription("product_data", nodes, <<>>, {}),
                         langgraph_available).app

\* The dict items of the lists: boxes, pieces and prices; an FBA id with the
\* number of its last box; pieces to fill in from a total; and a total that
\* no integer holds, on which fill_missing_values raises.
BatchRecords ==
  { Record((F_Boxes :> PyInt(MaxNum)) @@ (F_Pieces :> PyInt(1)) @@
           (F_DeclUnit :> PyInt(MaxNum)) @@ (F_PurchUnit :> PyInt(1))),
    Record((F_FBA :> PyStr(Box(1) \o << "," >> \o NatStr(MaxNum))) @@
           (F_Boxes :> PyInt(MaxNum))),
    Record((F_Boxes :> PyInt(MaxNum)) @@ (F_Total :> PyInt(MaxNum + 1)) @@
           (F_Pieces :> PyStr(<<>>))),
    Record((F_Boxes :> PyInt(MaxNum)) @@ (F_Total :> PyInf)) }

\* The state keys of the workflow descriptions: the one of the shipped
\* configuration, and another.
StateKeys == {"product_data", "record"}

BatchInit ==
  /\ pc = "called"
  /\ LANGGRAPH_AVAILABLE \in BOOLEAN
  /\ file = "mapping"
  /\ \E nodes \in RulePipelines, state_key \in StateKeys :
       config = WorkflowDescription(state_key, nodes, <<>>, {})
  /\ app = build_dynamic_workflow(config, LANGGRAPH_AVAILABLE).app
  /\ raised = "none"
  /\ fsLog = <<>>
  /\ logs = <<>>
  /\ heap = <<>>
  /\ input = [ref |-> 0, value |-> <<>>]
  /\ output = 0
  /\ calls = <<>>
  /\ runs = <<>>
  /\ batch = NoBatch
  /\ llm_failed = FALSE
  /\ cache = NoMapping
  /\ workers = [w \in Workers |-> Idle]
  /\ service = [configured |-> TRUE, requests |-> <<>>]
  /\ json_file = NoFile
  /\ engine = NoEngine

\* Lines 58-69 of process_json_with_langgraph: a string is parsed, and what
\* does not parse or is no list ends the call with [].
ReadInput ==
  /\ pc = "called"
  /\ \E form \in {"list", "unparsable", "no list"} :
       pc' = IF form = "list" THEN "batch" ELSE "returned"
  /\ UNCHANGED << LANGGRAPH_AVAILABLE, json_file, engine, file, config, app, raised, fsLog, logs, heap, input,
                  output, calls, runs, batch, llmVars >>

\* Lines 74-76: an item that is no dict is skipped.
SkipItem ==
  /\ pc = "batch"
  /\ Len(batch.items) < MaxItems
  /\ \A w \in Workers : workers[w].pc = "idle"
  /\ batch' = [batch EXCEPT !.items = Append(@, Item(FALSE, PyInt(MaxNum)))]
  /\ UNCHANGED << pc, LANGGRAPH_AVAILABLE, json_file, engine, file, config, app, raised, fsLog, logs, heap,
                  input, output, calls, runs, llmVars >>

\* Lines 79-81 for the dict item record, app.invoke having ended as r:
\* final_state["product_data"] is appended to processed_list; an exception
\* out of invoke, or the KeyError of that lookup, leaves
\* process_json_with_langgraph.
ReadBack(record, r) ==
  IF r.raised # "none" \/ "product_data" \notin DOMAIN r.state
  THEN /\ pc' = "raised"
       /\ raised' = "KeyError"
       /\ heap' = r.run.heap
       /\ input' = [ref |-> Len(heap) + 1, value |-> record]
       /\ calls' = r.run.calls
       /\ logs' = logs \o r.run.log
       /\ batch' = [batch EXCEPT !.items = Append(@, Item(TRUE, record))]
       /\ UNCHANGED << output, runs >>
  ELSE /\ heap' = r.run.heap
       /\ input' = [ref |-> Len(heap) + 1, value |-> record]
       /\ output' = r.state["product_data"]
       /\ calls' = r.run.calls
       /\ logs' = logs \o r.run.log
       /\ runs' = Append(runs, Applied("invoke", record, TRUE, r.state["product_data"],
                                       r.run.heap[Len(heap) + 1]))
       /\ batch' = [items |-> Append(batch.items, Item(TRUE, record)),
                    results |-> Append(batch.results, r.state["product_data"])]
       /\ UNCHANGED << pc, raised >>

\* Lines 77-81: app.invoke({"product_data": item}) on the next dict item,
\* and its product_data appended to processed_list.
ProcessItem ==
  /\ pc = "batch"
  /\ Len(batch.items) < MaxItems
  /\ \E record \in BatchRecords :
       ReadBack(record, invoke_state(app, Append(heap, record),
                                     StateOf("product_data", Len(heap) + 1)))
  /\ UNCHANGED << LANGGRAPH_AVAILABLE, json_file, engine, file, config, app, fsLog, llmVars >>

\* Line 84: processed_list is returned.
ReturnList ==
  /\ pc = "batch"
  /\ \A w \in Workers : workers[w].pc = "idle"
  /\ pc' = "returned"
  /\ UNCHANGED << LANGGRAPH_AVAILABLE, json_file, engine, file, config, app, raised, fsLog, logs, heap, input,
                  output, calls, runs, batch, llmVars >>

BatchNext == ReadInput \/ SkipItem \/ ProcessItem \/ ReturnList

BatchSpec == BatchInit /\ [][BatchNext]_vars

\* --------------------------------------- the field mapping rule at work
\* The records handed to the pipeline of the field mapping rule: 产品名称
\* alone, beside 中文品名, and beside a field nobody maps; and a key with a
\* line break beside such a field.
LlmRecords ==
  { Record(F_ProdName :> PyInt(1)),
    Record((F_ProdName :> PyInt(1)) @@ (F_Name :> PyInt(2))),
    Record((F_ProdName :> PyInt(1)) @@ (<<"x">> :> PyInt(2))),
    Record((F_PiecesNl :> PyInt(1)) @@ (<<"x">> :> PyInt(2))) }

\* One call of apply_field_mapping_llm_rule, as the caller saw it: by the
\* worker, before the content of the dict handed in, failed the value of
\* _llm_failed at line 65, answer what the service answered ("none" when it
\* was not asked) and after the content of the dict returned.
Mapped(by, before, failed, answer, after) ==
  [by |-> by, before |-> before, failed |-> failed, answer |-> answer, after |-> after]

\* The pipeline is one node, field_mapping_llm.  It is handed the items of
\* a list one after the other (pc = "called"), or one record by each of
\* the workers at a time (pc = "workers").
LlmInit ==
  /\ pc \in {"called", "workers"}
  /\ LANGGRAPH_AVAILABLE \in BOOLEAN
  /\ file = "mapping"
  /\ config = WorkflowDescription("product_data", << "field_mapping_llm" >>, <<>>, {})
  /\ app = CompiledFrom(<< "field_mapping_llm" >>, LANGGRAPH_AVAILABLE)
  /\ raised = "none"
  /\ fsLog = <<>>
  /\ logs = <<>>
  /\ heap = <<>>
  /\ input = [ref |-> 0, value |-> <<>>]
  /\ output = 0
  /\ calls = <<>>
  /\ runs = <<>>
  /\ batch = NoBatch
  /\ llm_failed = FALSE
  /\ cache = NoMapping
  /\ workers = [w \in Workers |-> Idle]
  /\ service \in { [configured |-> c, requests |-> <<>>] : c \in BOOLEAN }
  /\ json_file = NoFile
  /\ engine = NoEngine

\* Lines 311-331, and lines 79-80 of process_json_with_langgraph: the call
\* of worker w on item returns new_data, which joins the outputs.
Leave(w, item, failed, answer, new_data) ==
  /\ heap' = Append(heap, new_data)
  /\ runs' = Append(runs, Mapped(w, item, failed, answer, new_data))
  /\ workers' = [workers EXCEPT ![w] =
                   [Idle EXCEPT !.pc = IF pc = "workers" THEN "done" ELSE "idle"]]

\* Worker w is handed a record: lines 252-291 make cleaned_data, and line
\* 65 of call_llm_for_batch_mapping reads _llm_failed; the call returns {}
\* when it is set.
Enter(w) ==
  /\ workers[w].pc = "idle"
  /\ \/ pc = "workers"
     \/ /\ pc = "batch"
        /\ w = 1
        /\ Len(batch.items) < MaxItems
  /\ \E record \in LlmRecords :
       IF llm_failed
       THEN /\ Leave(w, record, TRUE, "none", NewData(CleanedData(record), NoMapping))
            /\ batch' = [items |-> Append(batch.items, Item(TRUE, record)),
                         results |-> Append(batch.results, Len(heap) + 1)]
       ELSE /\ workers' = [workers EXCEPT ![w] =
                             Worker("lookup", record, CleanedData(record),
                                    LookedUp(NoMapping, {}), "none", FALSE)]
            /\ batch' = [batch EXCEPT !.items = Append(@, Item(TRUE, record))]
            /\ UNCHANGED << heap, runs >>
  /\ UNCHANGED << pc, LANGGRAPH_AVAILABLE, json_file, engine, file, config, app, raised, fsLog, logs,
                  input, output, calls, llm_failed, cache, service >>

\* Lines 69-165 for the lookup looked: the call returns without a request
\* when no field is left to ask about (line 87) or the service is not
\* configured (line 163).
Looked(w, looked) ==
  IF looked.unmapped_fields = {} \/ ~service.configured
  THEN /\ Leave(w, workers[w].item, FALSE, "none",
                NewData(workers[w].data, looked.mapping_result))
       /\ batch' = [batch EXCEPT !.results = Append(@, Len(heap) + 1)]
  ELSE /\ workers' = [workers EXCEPT ![w].pc = "post", ![w].looked = looked]
       /\ UNCHANGED << heap, runs, batch >>

\* Lines 69-84: worker w reads the cache.
Look(w) ==
  /\ workers[w].pc = "lookup"
  /\ Looked(w, LookUp(workers[w].data.keys, cache))
  /\ UNCHANGED << pc, LANGGRAPH_AVAILABLE, json_file, engine, file, config, app, raised, fsLog, logs,
                  input, output, calls, llm_failed, cache, service >>

\* Lines 181-186: worker w sends its request, and the service answers.
Post(w) ==
  /\ workers[w].pc = "post"
  /\ \E answer \in Answers :
       workers' = [workers EXCEPT ![w].pc = "answered", ![w].answer = answer]
  /\ service' = [service EXCEPT !.requests =
                   Append(@, [by |-> w, fields |-> workers[w].looked.unmapped_fields,
                              failed |-> llm_failed])]
  /\ UNCHANGED << pc, LANGGRAPH_AVAILABLE, json_file, engine, file, config, app, raised, fsLog, logs, heap,
                  input, output, calls, runs, batch, llm_failed, cache >>

\* Lines 188-237 and 311-331 for the outcome r of reading the answer.
Read(w, r) ==
  /\ llm_failed' = r.module.llm_failed
  /\ cache' = r.module.cache
  /\ Leave(w, workers[w].item, FALSE, workers[w].answer,
           NewData(workers[w].data, r.mapping_result))
  /\ batch' = [batch EXCEPT !.results = Append(@, Len(heap) + 1)]

\* Lines 188-237: worker w reads the answer, writes to the cache or sets
\* _llm_failed, and returns.
Receive(w) ==
  /\ workers[w].pc = "answered"
  /\ Read(w, Received(workers[w].answer, workers[w].looked, workers[w].data.keys,
                      Module(llm_failed, cache)))
  /\ UNCHANGED << pc, LANGGRAPH_AVAILABLE, json_file, engine, file, config, app, raised, fsLog, logs,
                  input, output, calls, service >>

LlmNext ==
  \/ ReadInput
  \/ SkipItem
  \/ ReturnList
  \/ \E w \in Workers : Enter(w) \/ Look(w) \/ Post(w) \/ Receive(w)

LlmSpec == LlmInit /\ [][LlmNext]_vars

\* ----------------------------------------------- the edges of a graph
\* The longest edge list of a description whose edges are added one by one.
MaxEdges == 2

\* The nodes mappings of the descriptions whose edge lists vary: inc and
\* cpy, or inc and a node whose module is missing; cpy may be disabled.  The
\* edges name the sentinels, inc and cpy, so that cpy is an enabled, a
\* disabled or an undeclared node.  (inc is always added: line 246 does not
\* apply.)
EdgeNodes == { << "inc", "cpy" >>, << "inc", "mis" >>, << "mis", "inc" >> }
Endpoints == {"START", "END", "inc", "cpy", "mis"}

\* The edge lists of at most n edges between the endpoints.
EdgeListsUpTo(n) ==
  UNION { [1..k -> { Edge(from, to) : from \in Endpoints, to \in Endpoints }] : k \in 0..n }

\* build_dynamic_workflow has added the nodes (lines 224-243) of a
\* description with edges, and langgraph is there.
EdgeInit ==
  /\ pc = "nodes added"
  /\ LANGGRAPH_AVAILABLE = TRUE
  /\ file = "mapping"
  /\ \E edges \in EdgeListsUpTo(MaxEdges), nodes \in EdgeNodes,
        disabled_nodes \in {{}, {"cpy"}} :
       config = WorkflowDescription("product_data", nodes, edges, disabled_nodes)
  /\ app = GraphNodes(Built("none", App("graph", <<>>, NoFuncs, <<>>, "product_data"),
                            <<>>, <<>>), config.nodes, config.disabled_nodes).app
  /\ raised = "none"
  /\ fsLog = <<>>
  /\ logs = <<>>
  /\ heap = <<>>
  /\ input = [ref |-> 0, value |-> <<>>]
  /\ output = 0
  /\ calls = <<>>
  /\ runs = <<>>
  /\ batch = NoBatch
  /\ llm_failed = FALSE
  /\ cache = NoMapping
  /\ workers = [w \in Workers |-> Idle]
  /\ service = [configured |-> TRUE, requests |-> <<>>]
  /\ json_file = NoFile
  /\ engine = NoEngine

\* Line 253: build_workflow_from_edges(workflow, active_nodes, edges_config).
\* Without edges_config the default serial flow is added (lines 256-259).
AddEdges ==
  /\ pc = "nodes added"
  /\ pc' = "edges added"
  /\ app' = [app EXCEPT !.edges =
               IF config.edges # <<>>
               THEN build_workflow_from_edges(app.nodes, config.edges)
               ELSE SerialEdges(app.nodes)]
  /\ UNCHANGED << LANGGRAPH_AVAILABLE, json_file, engine, file, config, raised, fsLog, logs, heap, input,
                  output, calls, runs, batch, llmVars >>

\* Line 262: workflow.compile().
Compile ==
  /\ pc = "edges added"
  /\ \E compiled \in { StateGraph_compile(Built("none", app, <<>>, <<>>)) } :
       /\ raised' = compiled.raised
       /\ pc' = IF compiled.raised = "none" THEN "built" ELSE "raised"
  /\ UNCHANGED << LANGGRAPH_AVAILABLE, json_file, engine, file, config, app, fsLog, logs, heap, input,
                  output, calls, runs, batch, llmVars >>

EdgeNext == AddEdges \/ Compile

EdgeSpec == EdgeInit /\ [][EdgeNext]_vars

\* =================================================================== claims
Assembled == pc \in {"built", "raised", "ran"}
IsDict(c) == c.type = "dict"
Enabled(c) == Without(c.nodes, c.disabled_nodes)

\* A module string with "..", "/" or "\", read character by character.
HasTraversal(m) ==
  \/ \E i \in 1..Len(m) : m[i] = "/" \/ m[i] = "\\"
  \/ \E i \in 1..(Len(m) - 1) : m[i] = "." /\ m[i + 1] = "."

\* The enabled nodes of c whose entry has a module string with traversal.
TraversalNodes(c) ==
  { n \in Range(Enabled(c)) :
      "module" \in NodeConfigs[n].keys /\ HasTraversal(NodeConfigs[n].module) }

\* ------------------------------------------------------------------- C3
\* C3 (trust-boundary safety): every access of the resolver to a rule
\* module file (the existence test, the execution) comes after the
\* validation of that module string succeeded, and is for a module string
\* without "..", "/" and "\" whose file resolves to a descendant of the
\* rules directory; so no other module string ever causes a file access.
C3_TrustBoundary ==
  \A i \in 1..Len(fsLog) :
    fsLog[i].op \in {"exists", "exec"} =>
      /\ \E j \in 1..(i - 1) : fsLog[j] = FsEvent("validated", fsLog[i].module)
      /\ ~HasTraversal(fsLog[i].module)
      /\ IsRelativeTo(FileAt(fsLog[i].module), RulesDir)

\* An assembly that loaded a rule file while its description also named,
\* enabled, a traversal module, a link out of the rules directory and a
\* module in a subdirectory.
C3_Witness ==
  /\ pc = "built"
  /\ \E i \in 1..Len(fsLog) : fsLog[i].op = "exec"
  /\ \E n \in Range(Enabled(config)) : n \in {"trv", "sub", "lnk", "abs", "bsl"}

\* ------------------------------------------------------------------ C10
\* The calls a sequential run makes, by node.
CalledNodes == [i \in 1..Len(calls) |-> calls[i].node]

\* The dict the run holds after its first i calls: what the most recent
\* transform that returned gave back, the submitted dict if none did.
RECURSIVE HeldAfter(_)
HeldAfter(i) ==
  IF i = 0 THEN input.ref
  ELSE IF calls[i].ok THEN calls[i].ret ELSE HeldAfter(i - 1)

\* The enabled nodes of c whose rule function the resolver returns.
Resolved(c) ==
  { n \in Range(Enabled(c)) :
      /\ NodeConfigs[n].keys = Full
      /\ load_rule_function(NodeConfigs[n].module, NodeConfigs[n].function).raised = "none" }

\* C10 (sequential order and chaining): a run of the sequential fallback
\* calls the enabled nodes it assembled in the declaration order of the
\* nodes mapping, whatever the declared edges; each call is handed the dict
\* returned by the most recent call that returned (the submitted dict if
\* none did), and the run returns the dict held after the last call.
C10_SequentialChaining ==
  (pc = "ran" /\ app.kind = "simple") =>
    /\ CalledNodes = Without(config.nodes,
                             Range(config.nodes) \ Resolved(config))
    /\ \A i \in 1..Len(calls) : calls[i].arg = HeldAfter(i - 1)
    /\ output = HeldAfter(Len(calls))

\* A sequential run under edges declared against the declaration order, in
\* which a transform returned a new dict and the next call got that dict.
C10_Witness ==
  /\ pc = "ran" /\ app.kind = "simple"
  /\ Len(config.nodes) >= 2
  /\ config.edges = Chain(Reverse(Enabled(config)))
  /\ \E i \in 1..(Len(calls) - 1) :
       calls[i].ok /\ calls[i].ret # calls[i].arg /\ calls[i + 1].arg = calls[i].ret

\* ------------------------------------------------------------------- C1
\* The transforms that raise on every input.
AlwaysFails == {"failClean", "failDirty"}

\* The content of the dict that the pipeline of the nodes in order, with
\* node k left out, returns for the submitted record (a fresh run).
ReturnedWithout(order, k) ==
  LET r == simple_workflow(app, Without(order, {order[k]}),
                           Run(<< input.value >>, 1, <<>>, <<>>))
  IN r.heap[r.ref]

\* C1 (failure isolation law): when the transform of node k raises on
\* every input, the run returns the record that the pipeline without node
\* k returns on the same input, and the next node is handed the record
\* content from before node k ran, without any of node k's writes.
C1_FailureIsolation ==
  pc = "ran" =>
    \A k \in 1..Len(calls) :
      app.funcs[calls[k].node] \in AlwaysFails =>
        /\ heap[output] = ReturnedWithout(CalledNodes, k)
        /\ k < Len(calls) => calls[k + 1].argValue = calls[k].argValue

\* ------------------------------------------------------------------- C2
\* C2 (traversal aborts assembly): when an enabled node's module string
\* contains "..", "/" or "\", build_dynamic_workflow ends with a
\* ConfigError raised to its caller and returns no compiled pipeline.
C2_TraversalRaisesConfigError ==
  (Assembled /\ IsDict(config) /\ TraversalNodes(config) # {}) =>
    (pc = "raised" /\ raised = "ConfigError" /\ app = NoApp)

\* ------------------------------------------------------------------- C4
\* The enabled nodes of c with a safe module string whose resolution
\* fails: the file is missing, or its execution throws, or it lacks the
\* function.
Unresolvable(c) ==
  { n \in Range(Enabled(c)) :
      LET e == NodeConfigs[n] IN
      /\ e.keys = Full
      /\ ~HasTraversal(e.module)
      /\ IsRelativeTo(FileAt(e.module), RulesDir)
      /\ \/ ~FileExists(e.module)
         \/ Disk[FileAt(e.module)].throws
         \/ e.function \notin DOMAIN Disk[FileAt(e.module)].attrs }

\* C4 (resolution failure degrades to a no-op): for a node whose module
\* file is missing, lacks the function or throws on loading, the resolver
\* returns a transform that returns its input, assembly completes without
\* an exception, and the node is in the compiled pipeline.
C4_ResolutionFailureIsNoOp ==
  (Assembled /\ IsDict(config)) =>
    \A n \in Unresolvable(config) :
      /\ load_rule_function(NodeConfigs[n].module, NodeConfigs[n].function)
           = [raised |-> "none", func |-> "dummy_func",
              fs |-> load_rule_function(NodeConfigs[n].module, NodeConfigs[n].function).fs,
              log |-> load_rule_function(NodeConfigs[n].module, NodeConfigs[n].function).log]
      /\ raised = "none"
      /\ n \in Range(app.nodes)
      /\ app.funcs[n] = "dummy_func"

\* ------------------------------------------------------------------- C5
\* C5 (assembly aborts only on a security violation): for a configuration
\* without a path-traversal module reference, the empty document included,
\* build_dynamic_workflow returns a compiled pipeline and does not raise.
C5_NoAbortWithoutTraversal ==
  (Assembled /\ (IsDict(config) => TraversalNodes(config) = {})) =>
    (raised = "none" /\ app.kind \in {"graph", "simple"})

\* ------------------------------------------------------------------- C6
\* C6 (identity law of the empty pipeline): with zero enabled nodes,
\* assembly succeeds on both paths and a run returns the submitted record
\* unchanged.
C6_EmptyPipelineIdentity ==
  (Assembled /\ IsDict(config) /\ Enabled(config) = <<>>) =>
    /\ raised = "none"
    /\ pc = "ran" => (output = input.ref /\ heap[output] = input.value)

\* ------------------------------------------------------------------- C7
\* The modules the resolver touched on disk.
TouchedModules == { fsLog[i].module : i \in 1..Len(fsLog) }

\* C7 (disabling removes a node): the compiled pipeline holds exactly the
\* declared nodes not in disabled_nodes, in declaration order, also when
\* the declared edges mention a disabled node; a disabled node's transform
\* is neither loaded nor called.  Stated for the descriptions that disable
\* a node and keep another, and whose enabled nodes all resolve.
C7_DisabledRemoved ==
  (Assembled /\ IsDict(config) /\ Resolved(config) = Range(Enabled(config))
     /\ Enabled(config) # <<>> /\ config.disabled_nodes # {}) =>
    /\ raised = "none"
    /\ app.nodes = Enabled(config)
    /\ \A n \in config.disabled_nodes \cap Range(config.nodes) :
         /\ n \notin DOMAIN app.funcs
         /\ \A i \in 1..Len(calls) : calls[i].node # n
         /\ (\A m \in Range(Enabled(config)) : NodeConfigs[m].module # NodeConfigs[n].module)
              => NodeConfigs[n].module \notin TouchedModules

\* ------------------------------------------------------------------- C8
\* edges is START -> n1 -> ... -> nN -> END with n1..nN the names of the
\* set nodes, each once.
IsLinearChain(edges, nodes) ==
  /\ Len(edges) = Cardinality(nodes) + 1
  /\ edges[1].from = "START"
  /\ edges[Len(edges)].to = "END"
  /\ \A i \in 1..(Len(edges) - 1) : edges[i].to = edges[i + 1].from
  /\ { edges[i].to : i \in 1..(Len(edges) - 1) } = nodes

\* What the caller of build_dynamic_workflow and invoke sees for a
\* configuration and a record: the exception, or the record returned.
Outcome(c, langgraph_available, record) ==
  LET b == build_dynamic_workflow(c, langgraph_available) IN
  IF b.raised # "none" THEN [raised |-> b.raised, value |-> <<>>]
  ELSE LET r == invoke(b.app, << record >>, 1)
       IN [raised |-> "none", value |-> r.heap[r.ref]]

\* C8 (executor-strategy equivalence): for edges that form a linear chain
\* over the enabled nodes, in whatever order the nodes are declared, the
\* graph-backed and the sequential pipeline return the same record.  Stated
\* for the descriptions whose enabled nodes all resolve.
C8_StrategyEquivalence ==
  (pc = "loaded" /\ IsDict(config) /\ Enabled(config) # <<>>
     /\ Resolved(config) = Range(Enabled(config))
     /\ IsLinearChain(config.edges, Range(Enabled(config)))) =>
    \A record \in InputRecords :
      /\ Outcome(config, TRUE, record).raised = "none"
      /\ Outcome(config, TRUE, record) = Outcome(config, FALSE, record)

\* ------------------------------------------------------------------- C9
\* C9 (config load never fails the build): load_rules_config always
\* returns a workflow description, a mapping; for an unreadable or
\* unparsable file it logs an error and returns the built-in default: the
\* four shipped nodes chained in order, nothing disabled.
C9_LoadReturnsDescription ==
  pc # "start" =>
    /\ IsDict(config)
    /\ file = "unreadable" =>
         /\ config = WorkflowDescription("product_data",
              << "format_fba_id", "replace_parentheses", "calculate_totals",
                 "fill_missing_values" >>,
              << Edge("START", "format_fba_id"),
                 Edge("format_fba_id", "replace_parentheses"),
                 Edge("replace_parentheses", "calculate_totals"),
                 Edge("calculate_totals", "fill_missing_values"),
                 Edge("fill_missing_values", "END") >>, {})
         /\ logs[1].level = "ERROR"

\* ------------------------------------------------------------------ C11
\* C11 (no retry, no early stop): in one run over one record every node of
\* the compiled pipeline has its transform called exactly once, whether or
\* not it or an earlier node raised; no call is made for anything that is
\* not a node of the pipeline, and the run ends with a record returned
\* rather than with an exception.
C11_NoRetryNoEarlyStop ==
  pc = "ran" =>
    /\ \A n \in Range(app.nodes) :
         Cardinality({ i \in 1..Len(calls) : calls[i].node = n }) = 1
    /\ Len(calls) = Len(app.nodes)
    /\ raised = "none"
    /\ output \in 1..Len(heap)

\* A run in which a transform raised and a node after it was still called.
C11_Witness ==
  /\ pc = "ran"
  /\ \E i \in 1..(Len(calls) - 1) : ~calls[i].ok /\ calls[i + 1].node # calls[i].node

\* ------------------------------------------------------------------ C12
\* C12 (resolve once, run many): each (module, function) pair of a workflow
\* is executed from disk at most once per pipeline build, and every access
\* to a rule file is one the assembly made: a run adds none.
C12_ResolveOnce ==
  Assembled =>
    /\ \A i, j \in 1..Len(fsLog) :
         (fsLog[i].op = "exec" /\ fsLog[j].op = "exec"
            /\ fsLog[i].module = fsLog[j].module) => i = j
    /\ IsDict(config) => fsLog = build_dynamic_workflow(config, LANGGRAPH_AVAILABLE).fs

\* ------------------------------------------------------------------ C14
\* C14 (run is pure with respect to its input): after app.invoke on a
\* pipeline of the shipped rules, the dict the caller passed has the fields
\* and values it had before the run.
C14_RunIsPure ==
  (pc = "applied" /\ runs[1].by = "invoke") => heap[input.ref] = input.value

\* ------------------------------------------------------------------ C16
\* A field of record d that holds a number.
Numeric(d, key) == key \in DOMAIN d /\ IsFinite(d[key])

\* Field key of record d holds the number n.
Holds(d, key, n) == Numeric(d, key) /\ d[key].n = n

\* C16 (calculate_totals result): when 总箱数 and 单箱个数 both hold a
\* number, zero and negative ones included, the record apply_calculate_rules
\* leaves has 产品总个数 = 总箱数 × 单箱个数 and the two fields as they were;
\* and when 产品总个数 then holds a number, 申报总价 and 采购总价 are the
\* products of it and the unit price, for each unit price that holds a
\* number.
C16_CalculateTotals ==
  \A i \in 1..Len(runs) :
    runs[i].by = "apply_calculate_rules" =>
      /\ (Numeric(runs[i].before, F_Boxes) /\ Numeric(runs[i].before, F_Pieces)) =>
           /\ Holds(runs[i].after, F_Total,
                    runs[i].before[F_Boxes].n * runs[i].before[F_Pieces].n)
           /\ runs[i].after[F_Boxes] = runs[i].before[F_Boxes]
           /\ runs[i].after[F_Pieces] = runs[i].before[F_Pieces]
      /\ Numeric(runs[i].after, F_Total) =>
           /\ Numeric(runs[i].before, F_DeclUnit) =>
                Holds(runs[i].after, F_DeclTotal,
                      runs[i].before[F_DeclUnit].n * runs[i].after[F_Total].n)
           /\ Numeric(runs[i].before, F_PurchUnit) =>
                Holds(runs[i].after, F_PurchTotal,
                      runs[i].before[F_PurchUnit].n * runs[i].after[F_Total].n)

\* ------------------------------------------------------------------ C17
\* The rule functions of the default pipeline.
DefaultRules == { NodeConfigs[DefaultNodes[i]].function : i \in 1..Len(DefaultNodes) }

\* C17 (rules never raise): each of the four shipped rule functions returns
\* a record, whatever the fields of the record it is handed hold.
C17_RulesNeverRaise ==
  \A i \in 1..Len(runs) : runs[i].by \in DefaultRules => runs[i].ok

\* ------------------------------------------------------------------ C18
\* C18 (rule idempotence): a shipped rule function applied to the record it
\* returned, and the default pipeline run on its own output, return the
\* record unchanged.
C18_Idempotent ==
  (pc = "reapplied" /\ runs[1].by \in DefaultRules \cup {"invoke"}) =>
    runs[2].after = runs[2].before

IsDictItem(item) == item.isDict
DictItems == SelectSeq(batch.items, IsDictItem)

\* What the pipeline of the field mapping rule returns for a record that is
\* the first it is handed, for each answer the service can give.
Fresh == Module(FALSE, NoMapping)
AloneOutputs(record) ==
  { apply_field_mapping_llm_rule(record, Fresh, service.configured, answer).data :
      answer \in Answers }

\* C13 (isolation between the records of a batch): the list returned has
\* one output for every dict item of the input, in input order, and the
\* output for item j is what the pipeline returns for item j alone.
C13_BatchIsolation ==
  pc = "returned" =>
    /\ Len(batch.results) = Len(DictItems)
    /\ \A j \in 1..Len(batch.results) :
         heap[batch.results[j]] \in AloneOutputs(DictItems[j].value)

\* ------------------------------------------------------------------ C19
\* C19 (the field mapping rule degrades to a pass-through): a call whose
\* request timed out, got another status than 200 or found the service
\* unreachable returns the keys and values it was handed; once a call has
\* failed so, _llm_failed stays set, and when records are handed over one
\* after the other no request is sent while it is set.
C19_DegradesToPassThrough ==
  /\ \A i \in 1..Len(runs) :
       runs[i].answer \in Failures => runs[i].after = runs[i].before
  /\ (\E i \in 1..Len(runs) : runs[i].answer \in Failures) => llm_failed
  /\ pc # "workers" =>
       \A k \in 1..Len(service.requests) : ~service.requests[k].failed

\* ------------------------------------------------------------------ C20
\* What two records give one after the other, the first call having ended
\* as first.
Then(first, second, answer) ==
  << first.data, apply_field_mapping_llm_rule(second, first.module, service.configured,
                                              answer).data >>

\* The answers of the service to a call that got answer when it ran beside
\* another: the same, and any when it was not asked then.
SameAnswers(answer) == IF answer = "none" THEN Answers ELSE {answer}

\* The outputs of the calls x and then y, run one after the other from a
\* module just loaded.
OneAfterTheOther(x, y) ==
  { Then(apply_field_mapping_llm_rule(x.before, Fresh, service.configured, a), y.before, b) :
      a \in SameAnswers(x.answer), b \in SameAnswers(y.answer) }

\* C20 (two workers, one pipeline): when both workers have returned, their
\* outputs are those of the two records run one after the other, in one
\* order or the other, the service answering each call as it did.
C20_WorkersAsOneAfterTheOther ==
  (pc = "workers" /\ \A w \in Workers : workers[w].pc = "done") =>
    \/ << runs[1].after, runs[2].after >> \in OneAfterTheOther(runs[1], runs[2])
    \/ << runs[2].after, runs[1].after >> \in OneAfterTheOther(runs[2], runs[1])

\* ------------------------------------------------------------------ C21
\* The enabled nodes of c that the assembly skips: an entry without module
\* or function, or a rule function the resolver raises for.
Skipped(c) == Range(Enabled(c)) \ Resolved(c)

\* The place of node n in the declaration order of c.
Place(c, n) == CHOOSE i \in 1..Len(c.nodes) : c.nodes[i] = n

\* Log line i is an error or a warning.
Alert(i) == logs[i].level \in {"ERROR", "WARNING"}

Marker(endpoint) ==
  IF endpoint = "START" THEN START ELSE IF endpoint = "END" THEN END ELSE endpoint

\* C22 (sentinel mapping): build_workflow_from_edges adds one graph edge for
\* every declared edge, in order, with 'START' replaced by the START marker
\* and 'END' by the END marker at either end, and every other endpoint
\* passed on as it is.
C22_SentinelMapping ==
  (pc \in {"edges added", "built", "raised"} /\ config.edges # <<>>) =>
    /\ Len(app.edges) = Len(config.edges)
    /\ \A i \in 1..Len(app.edges) :
         app.edges[i] = << Marker(config.edges[i].from), Marker(config.edges[i].to) >>

\* ------------------------------------------------------------------ C23
\* The declared edges use the sentinels where build_workflow_from_edges
\* maps them: 'START' as from, 'END' as to, and not both in one edge.
SentinelsInPlace(edges) ==
  \A i \in 1..Len(edges) :
    /\ edges[i].to # "START" /\ edges[i].from # "END"
    /\ ~(edges[i].from = "START" /\ edges[i].to = "END")

\* The endpoints of the edges added to the graph, the markers left out.
NodeEndpoints == { app.edges[i][j] : i \in 1..Len(app.edges), j \in {1, 2} } \ {START, END}

\* C23 (edge endpoints): in the graph handed to compile every edge endpoint
\* other than the START and END markers is a declared node that is not
\* disabled and was added to the graph.  Stated for the descriptions whose
\* edges use the sentinels in place.
C23_EdgeEndpoints ==
  (pc = "edges added" /\ SentinelsInPlace(config.edges)) =>
    \A n \in NodeEndpoints :
      /\ n \in Range(config.nodes)
      /\ n \notin config.disabled_nodes
      /\ n \in Range(app.nodes)

\* ------------------------------------------------------------------ C24
\* C24 (state-key binding): the batch driver submits and reads back every
\* record under the state key of the workflow, so that a batch goes through
\* whatever the state key is: no item ends the call with an exception, and
\* every dict item read so far has its output in the list.
C24_StateKeyBinding ==
  /\ raised = "none"
  /\ Len(batch.results) = Len(DictItems)

\* ------------------------------------------------------------------ C25
\* C25 (field mapping never overwrites or loses data): of every call of
\* apply_field_mapping_llm_rule, whatever the service answered and whatever
\* the cache held, the dict returned has as many entries as the cleaned
\* input, and every standard field of the cleaned input is a key of the
\* output with the value it had: no key was renamed onto it.
KeptEntries(cleaned_data, new_data) ==
  /\ Cardinality(DOMAIN new_data) = Cardinality(DOMAIN cleaned_data.value)
  /\ \A k \in DOMAIN cleaned_data.value \cap STANDARD_FIELDS :
       k \in DOMAIN new_data /\ new_data[k] = cleaned_data.value[k]

C25_NoOverwrite ==
  \A i \in 1..Len(runs) : KeptEntries(CleanedData(runs[i].before), runs[i].after)

\* ------------------------------------------------------------------ C26
\* The value a text field with a default holds after fill_missing_values,
\* by the key k and the value v it held: 无品牌 for a brand type that was
\* null, 'null', empty or 无; 无 for another brand, a model or a SKU field
\* that was null, 'null' or empty; / for such a platform link.
Unfilled(v) == v = PyNone \/ v = Null \/ (v.t = "str" /\ strip(v.s) = <<>>)

DefaultOf(k, v) ==
  IF Contains(k, F_BrandType)
  THEN (IF Unfilled(v) \/ (v.t = "str" /\ strip(v.s) = Wu.s) THEN WuPinPai ELSE v)
  ELSE IF (Contains(k, F_Brand) \/ Contains(k, F_Model) \/ Contains(k, F_Sku))
          /\ Unfilled(v)
  THEN Wu
  ELSE IF Contains(k, << "ping", "tai", "lian", "jie" >>) /\ Unfilled(v) THEN Slash
  ELSE v

HasDefault(k) ==
  \/ Contains(k, F_Brand) \/ Contains(k, F_Model) \/ Contains(k, F_Sku)
  \/ Contains(k, << "ping", "tai", "lian", "jie" >>)

\* C26 (the default fills do not depend on the numeric fills): after every
\* call of fill_missing_values, every brand, model, SKU and link key of the
\* record holds its default where its value was missing, whatever the
\* record holds under the boxes, the totals and the weights.
C26_DefaultFills ==
  \A i \in 1..Len(runs) :
    runs[i].by = "apply_fill_missing_values_rule" =>
      \A k \in DOMAIN runs[i].before :
        HasDefault(k) => /\ k \in DOMAIN runs[i].after
                         /\ runs[i].after[k] = DefaultOf(k, runs[i].before[k])

\* ------------------------------------------------------------------ C27
\* 单箱个数 absent, null, 'null' or empty, and no 单箱\n个数 beside it.
NoPieces(data) ==
  /\ F_PiecesNl \notin DOMAIN data
  /\ F_Pieces \in DOMAIN data => data[F_Pieces] \in { PyNone, Null, PyStr(<<>>) }

\* 产品总个数 and 总箱数 are integers, and there is a box.
Countable(data) ==
  /\ F_Total \in DOMAIN data /\ data[F_Total].t = "int"
  /\ F_Boxes \in DOMAIN data /\ data[F_Boxes].t = "int" /\ data[F_Boxes].n > 0

\* C27 (the per-box count is derived): after fill_missing_values on a
\* record without a per-box count whose total and boxes are numbers with
\* boxes > 0, 单箱个数 is the integer part of total / boxes; and on a record
\* with 总箱数 = 0 the call returns without an error and 单箱个数 is as it
\* was.
C27_PiecesPerBox ==
  \A i \in 1..Len(runs) :
    runs[i].by = "apply_fill_missing_values_rule" =>
      /\ (NoPieces(runs[i].before) /\ Countable(runs[i].before)) =>
           /\ F_Pieces \in DOMAIN runs[i].after
           /\ runs[i].after[F_Pieces] =
                PyInt(runs[i].before[F_Total].n \div runs[i].before[F_Boxes].n)
      /\ (F_Boxes \in DOMAIN runs[i].before /\ runs[i].before[F_Boxes] = PyInt(0)) =>
           /\ runs[i].ok
           /\ (F_Pieces \in DOMAIN runs[i].after) = (F_Pieces \in DOMAIN runs[i].before)
           /\ Get(runs[i].after, F_Pieces) = Get(runs[i].before, F_Pieces)

\* ------------------------------------------------------------------ C28
\* A 12-character id starting with FBA under FBA箱号.
Is12(data) ==
  /\ F_FBA \in DOMAIN data /\ data[F_FBA].t = "str"
  /\ Len(data[F_FBA].s) = 12 /\ SubSeq(data[F_FBA].s, 1, 3) = FBA

\* 总箱数 holds an integer: an int, a float without fractional part or the
\* digits of one.
IsInteger(v) ==
  \/ v.t = "int"
  \/ v.t = "float" /\ v.s = <<>>
  \/ v.t = "str" /\ int(v).exc = "none"

\* '<id>U000001-<id>U<n on six digits>'
Formatted(id, n) ==
  PyStr(id \o << "U", "0", "0", "0", "0", "0", "1", "-" >> \o id \o << "U" >>
           \o zfill(NatStr(n), 6))

\* C28 (the 12-character rule of format_fba_id): a 12-character id starting
\* with FBA becomes the range from box 1 to box N when 总箱数 is an integer N
\* from 1 to 999999, and stays as it is when 总箱数 is missing, no integer,
\* or an integer below 1.
C28_TwelveCharacters ==
  \A i \in 1..Len(runs) :
    (runs[i].by = "apply_fba_rule" /\ Is12(runs[i].before)) =>
      IF /\ F_Boxes \in DOMAIN runs[i].before
         /\ IsInteger(runs[i].before[F_Boxes])
         /\ int(runs[i].before[F_Boxes]).v.n \in 1..999999
      THEN runs[i].after[F_FBA] =
             Formatted(runs[i].before[F_FBA].s, int(runs[i].before[F_Boxes]).v.n)
      ELSE runs[i].after[F_FBA] = runs[i].before[F_FBA]

\* ------------------------------------------------ the transformed file
\* The 'metadata' entries of the files read: none, null, the mapping
\* build_idr writes (excel_to_json.py 454-459; its count of records may be
\* any), a mapping without a count, an empty mapping, and a text.
Metadatas ==
  { Metadata("absent", NoFields), Metadata("null", NoFields),
    Metadata("dict", ("source" :> 1) @@ ("records" :> MaxItems + 1) @@ ("assets" :> 0)),
    Metadata("dict", ("source" :> 1)),
    Metadata("dict", NoFields),
    Metadata("str", NoFields) }

\* The pipelines create_workflow compiles for the files.
FilePipelines == { << "format_fba_id" >>, << "calculate_totals", "fill_missing_values" >> }

\* _transform_json_file has read a mapping with a 'data' list (lines
\* 187-198) and calls process_json_with_langgraph on the list (line 201).
FileInit ==
  /\ pc = "batch"
  /\ LANGGRAPH_AVAILABLE \in BOOLEAN
  /\ file = "mapping"
  /\ \E nodes \in FilePipelines :
       config = WorkflowDescription("product_data", nodes, <<>>, {})
  /\ app = build_dynamic_workflow(config, LANGGRAPH_AVAILABLE).app
  /\ raised = "none"
  /\ fsLog = <<>>
  /\ logs = <<>>
  /\ heap = <<>>
  /\ input = [ref |-> 0, value |-> <<>>]
  /\ output = 0
  /\ calls = <<>>
  /\ runs = <<>>
  /\ batch = NoBatch
  /\ llm_failed = FALSE
  /\ cache = NoMapping
  /\ workers = [w \in Workers |-> Idle]
  /\ service = [configured |-> TRUE, requests |-> <<>>]
  /\ \E metadata \in Metadatas : json_file = [NoFile EXCEPT !.metadata = metadata]
  /\ engine = NoEngine

\* Lines 204-212: output_data for the metadata read and processed_data.
output_data(metadata, processed_data) ==
  IF metadata.kind \in {"absent", "null"} THEN Written("list", NoFields, processed_data)
  ELSE Written("dict",
               [f \in DOMAIN metadata.fields \cup {"records"} |->
                  IF f = "records" THEN Len(processed_data) ELSE metadata.fields[f]],
               processed_data)

\* Lines 204-219: the output is built and written, and the call returns
\* True.  (A metadata entry that is a text fails at line 210.)
WriteOutput ==
  /\ pc = "returned"
  /\ json_file.metadata.kind # "str"
  /\ json_file' = [json_file EXCEPT !.written = output_data(json_file.metadata, batch.results)]
  /\ pc' = "written"
  /\ UNCHANGED << LANGGRAPH_AVAILABLE, engine, file, config, app, raised, fsLog, logs, heap,
                  input, output, calls, runs, batch, llmVars >>

\* Lines 221-223: an exception out of process_json_with_langgraph, or the
\* TypeError of line 210, is logged and the call returns False; nothing
\* was written.
FailTransform ==
  /\ \/ pc = "raised"
     \/ pc = "returned" /\ json_file.metadata.kind = "str"
  /\ pc' = "failed"
  /\ UNCHANGED << LANGGRAPH_AVAILABLE, json_file, engine, file, config, app, raised, fsLog,
                  logs, heap, input, output, calls, runs, batch, llmVars >>

FileNext == SkipItem \/ ProcessItem \/ ReturnList \/ WriteOutput \/ FailTransform

FileSpec == FileInit /\ [][FileNext]_vars

\* ------------------------------------------------------------------ C29
\* C29 (the shape of a transformed file): whenever _transform_json_file
\* succeeds on a mapping with a 'data' list, the file written is a mapping
\* with the records processed under 'data' and, under 'metadata', the
\* metadata fields of the input and records equal to the number of records
\* written, whether the input had a metadata entry or not and whether items
\* were skipped or not.
C29_FileShape ==
  pc = "written" =>
    /\ json_file.written.kind = "dict"
    /\ json_file.written.data = batch.results
    /\ \A f \in DOMAIN json_file.metadata.fields \ {"records"} :
         /\ f \in DOMAIN json_file.written.metadata
         /\ json_file.written.metadata[f] = json_file.metadata.fields[f]
    /\ "records" \in DOMAIN json_file.written.metadata
    /\ json_file.written.metadata["records"] = Len(json_file.written.data)

\* ------------------------------------------- the conversion of one file
\* The most files preprocess_excel returns for one input file.
MaxFiles == 2

\* A preprocessed file, by what each stage makes of it: excel_to_idr
\* returns the path of the file it wrote or raises (excel_to_json.py
\* 465-494); transform_idr_from_temp returns a path or None
\* (json_transformer.py 157-160); the body of json_to_excel returns True or
\* False (json_to_excel.py 531-602).
PreprocessedFiles ==
  [extract : {"ok", "raises"}, transform : {"ok", "none"}, render : {"ok", "fails"}]

FileListsUpTo(n) == UNION { [1..k -> PreprocessedFiles] : k \in 0..n }

\* The parameters of json_to_excel (json_to_excel.py line 529), and the
\* keyword arguments of the call at main.py lines 180-187.
json_to_excel_parameters ==
  {"input_path", "output_path", "template_path", "process_images"}
RenderKeywords ==
  {"input_path", "output_path", "template_path", "process_images", "templates_dir",
   "temp_dir"}

\* The call json_to_excel(**keywords) on a preprocessed file: a keyword
\* that is no parameter is a TypeError of the call.
json_to_excel(keywords, preprocess_file) ==
  IF ~(keywords \subseteq json_to_excel_parameters) THEN "TypeError"
  ELSE IF preprocess_file.render = "ok" THEN "True"
  ELSE "False"

\* A stage started on the file at place at.
Stage(at, stage) == [at |-> at, stage |-> stage]

EngineInit ==
  /\ pc = "preprocess"
  /\ LANGGRAPH_AVAILABLE = TRUE
  /\ file = "unreadable"
  /\ config = load_rules_config(ConfigFile("unreadable", None)).config
  /\ app = DefaultApp(LANGGRAPH_AVAILABLE)
  /\ raised = "none"
  /\ fsLog = <<>>
  /\ logs = <<>>
  /\ heap = <<>>
  /\ input = [ref |-> 0, value |-> <<>>]
  /\ output = 0
  /\ calls = <<>>
  /\ runs = <<>>
  /\ batch = NoBatch
  /\ llm_failed = FALSE
  /\ cache = NoMapping
  /\ workers = [w \in Workers |-> Idle]
  /\ service = [configured |-> TRUE, requests |-> <<>>]
  /\ json_file = NoFile
  /\ \E skip_preprocessing \in BOOLEAN, files \in FileListsUpTo(MaxFiles) :
       /\ skip_preprocessing => Len(files) = 1
       /\ engine = [NoEngine EXCEPT !.skip_preprocessing = skip_preprocessing,
                                    !.files = files]

engineOnly ==
  << LANGGRAPH_AVAILABLE, json_file, file, config, app, raised, fsLog, logs, heap, input,
     output, calls, runs, batch, llmVars >>

\* The loop of line 134 goes on from the state e of the call: to the next
\* file, or to the return of all_success at line 195.
NextFile(e) ==
  IF e.at < Len(e.files)
  THEN pc' = "extract" /\ engine' = [e EXCEPT !.at = @ + 1]
  ELSE /\ pc' = "returned"
       /\ engine' = [e EXCEPT !.result = IF e.all_success THEN "True" ELSE "False"]

\* Lines 119-130: the input file itself, or the files preprocess_excel
\* returned; no file ends the call with False.
Preprocess ==
  /\ pc = "preprocess"
  /\ IF engine.files = <<>>
     THEN pc' = "returned" /\ engine' = [engine EXCEPT !.result = "False"]
     ELSE /\ pc' = "extract"
          /\ engine' = [engine EXCEPT !.at = 1]
  /\ UNCHANGED engineOnly

\* Lines 139-145: excel_to_idr on the file; its exception is caught at
\* line 197.
Extract ==
  /\ pc = "extract"
  /\ IF engine.files[engine.at].extract = "raises"
     THEN /\ pc' = "returned"
          /\ engine' = [engine EXCEPT !.stages = Append(@, Stage(engine.at, "extract")),
                                      !.result = "False"]
     ELSE /\ pc' = "transform"
          /\ engine' = [engine EXCEPT !.stages = Append(@, Stage(engine.at, "extract"))]
  /\ UNCHANGED engineOnly

\* Lines 148-162: transform_idr_from_temp on the file extracted; without a
\* file transformed the loop goes on with all_success False.
Transform ==
  /\ pc = "transform"
  /\ IF engine.files[engine.at].transform = "none"
     THEN NextFile([engine EXCEPT !.stages = Append(@, Stage(engine.at, "transform")),
                                  !.all_success = FALSE])
     ELSE /\ pc' = "render"
          /\ engine' = [engine EXCEPT !.stages = Append(@, Stage(engine.at, "transform"))]
  /\ UNCHANGED engineOnly

\* Lines 165-192 for the outcome of the call of json_to_excel: its
\* exception is caught at line 197, False clears all_success.
Rendered(e, success) ==
  IF success = "TypeError"
  THEN pc' = "returned" /\ engine' = [e EXCEPT !.result = "False"]
  ELSE NextFile([e EXCEPT !.all_success = @ /\ success = "True"])

\* Lines 165-192: json_to_excel is called on the file transformed.
Render ==
  /\ pc = "render"
  /\ Rendered([engine EXCEPT !.stages = Append(@, Stage(engine.at, "render"))],
              json_to_excel(RenderKeywords, engine.files[engine.at]))
  /\ UNCHANGED engineOnly

EngineNext == Preprocess \/ Extract \/ Transform \/ Render

EngineSpec == EngineInit /\ [][EngineNext]_vars

\* ------------------------------------------------------------------ C30
\* The stages of the file at place i come in the order extract, transform,
\* render, each one right after the stage before it, which succeeded.
InOrder(stages, files) ==
  \A k \in 1..Len(stages) :
    /\ stages[k].stage = "transform" =>
         /\ k > 1 /\ stages[k - 1] = Stage(stages[k].at, "extract")
         /\ files[stages[k].at].extract = "ok"
    /\ stages[k].stage = "render" =>
         /\ k > 1 /\ stages[k - 1] = Stage(stages[k].at, "transform")
         /\ files[stages[k].at].transform = "ok"
    /\ stages[k].stage = "extract" =>
         \A j \in 1..(k - 1) : stages[j].at < stages[k].at

\* The file passes all of its stages.
Passes(preprocess_file) ==
  /\ preprocess_file.extract = "ok"
  /\ preprocess_file.transform = "ok"
  /\ preprocess_file.render = "ok"

\* C30 (stage ordering of the conversion): the stages of every preprocessed
\* file run in the order extract, transform, render, a stage only after the
\* earlier ones succeeded; and process_single_file returns True exactly
\* when every preprocessed file passes all of its stages.
C30_StageOrdering ==
  /\ InOrder(engine.stages, engine.files)
  /\ (pc = "returned" /\ engine.files # <<>>) =>
       (engine.result = "True") =
         (\A i \in 1..Len(engine.files) : Passes(engine.files[i]))

====
